---- MODULE Spec2Model ----
(***************************************************************************)
(* Model of the layered terrain raster engine of fvtt-terrain-mapper       *)
(* (src/scripts/TerrainLayer.js): the six shape queues, the per-layer      *)
(* graphics containers, the two channel buffers (render textures), the     *)
(* pixel cache with its dirty bits, the scene map and the save flag.       *)
(*                                                                         *)
(* A scene point is an element of Points; a shape is the set of points it  *)
(* covers.  A graphics object is a record carrying the identity of the     *)
(* PIXI.Graphics (id), the shape it draws, its layer and the pixel value   *)
(* it is tinted with.  A channel buffer maps each point to its three       *)
(* channel values.                                                         *)
(***************************************************************************)
EXTENDS Integers, Sequences, FiniteSets, TLC

(* ----- program constants (TerrainLayer.js, "NOTE: Constants") ----- *)
MAX_LAYERS == 6
MAX_CHANNELS == 3
NUM_TEXTURES == 2
NUM_UNDO == 20
MAX_TERRAIN_ID == 31

(* ----- bounds of the model ----- *)
(* Graphics objects alive at once (queued, drawn or temporary). *)
MaxShapes == 2
(* Entries older than the undo window in the queues the compaction starts from. *)
MaxOlder == 2

Layers == 0 .. (MAX_LAYERS - 1)
Textures == 0 .. (NUM_TEXTURES - 1)
Channels == 0 .. (MAX_CHANNELS - 1)
(* The sampled scene points. *)
Points == {1, 2}
Shapes == (SUBSET Points) \ {{}}
GridShapes == {{p} : p \in Points}

(* The values of toolbar.currentLayer the model draws: one layer of each
   buffer, and in PaintLayers a second channel of buffer 0. *)
CurrentLayers == {0, 4}
PaintLayers == {0, 1, 4}

(* The shapes drawn by the specifications that vary more layers or tools:
   a cell and a polygon covering it. *)
PaintShapes == {{1}, {1, 2}}
PolygonShapes == {{1, 2}}
TempLayers == {0}

(* Terrain identities.  nullTerrain is "new Terrain()", bound to key 0. *)
nullTerrain == <<"terrain", 0>>
Terrains == {<<"terrain", 1>>}

NoData == [nodata |-> TRUE]

(* JavaScript undefined and NaN, kept apart from the numbers. *)
Undefined == [undefined |-> TRUE]
NaN == [nan |-> TRUE]

(* The callers of save(): _deactivate (not awaited) and _tearDown (awaited). *)
Savers == {"deactivate", "tearDown"}

(* The initialize() calls of one scene load: canvasReady does not await them. *)
InitCalls == 1 .. 2

(* A save() call: not made yet ("idle"), waiting on lock.acquire() ("acquire"),
   waiting on saveSceneData() with the snapshot handed to it ("write"),
   returned ("done") or rejected ("failed"); writes counts its saveData calls. *)
IdleSave == [pc |-> "idle", snapshot |-> NoData, writes |-> 0]

VARIABLES
  initialized,        \* #initialized
  requiresSave,       \* _requiresSave
  sceneMap,           \* sceneMap: pixel value -> terrain
  shapeQueueArray,    \* _shapeQueueArray: one queue of graphics records per layer
  graphicsLayers,     \* _graphicsLayers: children of each layer container, in order
  terrainTextures,    \* _terrainTextures: the channel buffers
  pixelCacheArray,    \* #pixelCacheArray: per-buffer cache
  pixelCache,         \* #pixelCache: merged six-layer cache
  pixelCacheDirty,    \* #pixelCacheDirty
  temporaryGraphics,  \* #temporaryGraphics: Map origin key -> {shape, graphics}, insertion order
  storedData,         \* the scene data file written by _fileManager.saveData
  lock,               \* TerrainLayer.lock: the save calls queued on it, the holder first
  saves,              \* the save() calls in flight, by caller
  tearDown,           \* where the _tearDown call stands
  returned,           \* what the last facade query or scene-map call returned or threw
  lastOp,             \* history: the operation that produced this state
  everEnqueued,       \* history: the (point, layer) pairs covered by a shape ever enqueued
  lastDestination,    \* StairsRegionBehaviorType.lastDestination (static)
  eventData,          \* event.data of the last region event, as its handler left it
  requestedDestination, \* history: event.data.destination as the last region event arrived
  initializing,       \* where each initialize() call stands
  dispatched          \* history: the last region event as it arrived, its behavior and the dialog's answer

vars == <<initialized, requiresSave, sceneMap, shapeQueueArray, graphicsLayers,
          terrainTextures, pixelCacheArray, pixelCache, pixelCacheDirty,
          temporaryGraphics, storedData, lock, saves, tearDown, returned,
          lastOp, everEnqueued, lastDestination, eventData, requestedDestination,
          dispatched, initializing>>

(* The fields only the asynchronous handlers and the queries write. *)
asyncVars == <<lock, saves, tearDown, returned>>

(* The fields of the terrain layer itself. *)
layerVars == <<initialized, requiresSave, sceneMap, shapeQueueArray, graphicsLayers,
               terrainTextures, pixelCacheArray, pixelCache, pixelCacheDirty,
               temporaryGraphics, storedData>>

(* The fields only the region behaviors write. *)
regionVars == <<lastDestination, eventData, requestedDestination, dispatched>>

(* ----- small helpers ----- *)
Range(s) == {s[i] : i \in DOMAIN s}

RECURSIVE SumLen(_, _)
SumLen(f, S) ==
  IF S = {} THEN 0
  ELSE LET x == CHOOSE y \in S : TRUE IN Len(f[x]) + SumLen(f, S \ {x})

SelectSeqNe(s, g) == SelectSeq(s, LAMBDA e : e # g)

minOf(S) == CHOOSE a \in S : \A b \in S : a <= b
maxOf(S) == CHOOSE a \in S : \A b \in S : a >= b

(* JavaScript ~n on a 32-bit integer. *)
BitNot(n) == -(n + 1)

(* JavaScript Math.floor(n / 3). *)
FloorDiv3(n) == n \div 3

(* An integer-indexed write to a Uint8Array: ignored when the index is out of range. *)
TypedArraySet(arr, idx, v) ==
  IF idx \in DOMAIN arr THEN [arr EXCEPT ![idx] = v] ELSE arr

BlankTexture == [p \in Points |-> [c \in Channels |-> 0]]
EmptyQueues == [l \in Layers |-> <<>>]

(* ----- the external rasterizer ----- *)

(* One graphics object painted into a buffer through the colour mask of its
   layer: only the layer's channel is written, at the points the shape covers. *)
paint(tex, g, channel) ==
  [p \in Points |->
     IF p \in g.shape THEN [tex[p] EXCEPT ![channel] = g.pixelValue] ELSE tex[p]]

RECURSIVE paintChildren(_, _, _)
paintChildren(tex, children, channel) ==
  IF children = <<>> THEN tex
  ELSE paintChildren(paint(tex, Head(children), channel), Tail(children), channel)

(* canvas.app.renderer.render(layerContainer, { renderTexture, transform, clear }):
   the children are painted in order, over a blank buffer when clear is set. *)
rendererRender(children, tex, channel, clear) ==
  paintChildren(IF clear THEN BlankTexture ELSE tex, children, channel)

(* ----- renderTerrain / _clearPixelCacheArray ----- *)

(* The loop of renderTerrain(layer) from index i on; clear is the loop's flag. *)
RECURSIVE renderLoop(_, _, _, _, _)
renderLoop(texs, containers, layer, i, clear) ==
  IF i >= MAX_LAYERS THEN texs
  ELSE LET texIdx == FloorDiv3(i)
           texToRender == FloorDiv3(layer)
       IN IF BitNot(layer) # 0 /\ texIdx # texToRender
            THEN renderLoop(texs, containers, layer, i + 1, clear)
            ELSE renderLoop(
                   [texs EXCEPT ![texIdx] =
                      rendererRender(containers[i], texs[texIdx], i % MAX_CHANNELS, clear)],
                   containers, layer, i + 1, FALSE)

(* Variant: the loop starts with clear unset, so nothing is ever cleared. *)
renderTerrainTexturesNoClear(texs, containers, layer) ==
  renderLoop(texs, containers, layer, 0, FALSE)

(* The textures after renderTerrain(layer); layer = -1 is "no layer given". *)
renderTerrainTextures(texs, containers, layer) ==
  renderLoop(texs, containers, layer, 0, TRUE)

(* The dirty bits after _clearPixelCacheArray(layer). *)
clearPixelCacheArray(dirty, layer) ==
  IF BitNot(layer) # 0
    THEN [t \in Textures |-> 1]
    ELSE TypedArraySet(dirty, FloorDiv3(layer), 1)

(* ----- pixel cache ----- *)

(* TerrainLayerPixelCache.fromTexture / updateFromTexture: the three channel
   values of every point of the buffer. *)
updateFromTexture(tex) == [p \in Points |-> [c \in Channels |-> tex[p][c]]]

(* TerrainPixelCache.fromTerrainLayerCaches / updateFromTerrainLayerCaches:
   the six-layer vector of every point. *)
updateFromTerrainLayerCaches(cache0, cache1) ==
  [p \in Points |->
     [l \in Layers |->
        IF l < MAX_CHANNELS THEN cache0[p][l] ELSE cache1[p][l - MAX_CHANNELS]]]

(* #refreshPixelCacheArray(i) for the buffers whose dirty bit is set. *)
refreshPixelCacheArrays(texs, cacheArr, dirty) ==
  [t \in Textures |-> IF dirty[t] # 0 THEN updateFromTexture(texs[t]) ELSE cacheArr[t]]

(* get pixelCacheDirty *)
pixelCacheDirtyAny(dirty) == dirty[0] # 0 \/ dirty[1] # 0

(* The result of "this.pixelCache.terrainLayersAt(x, y)" in the current state:
   the getter refreshes when a dirty bit is set and reads the merged cache. *)
terrainLayersAtPoint(p) ==
  IF pixelCacheDirtyAny(pixelCacheDirty)
    THEN LET arr == refreshPixelCacheArrays(terrainTextures, pixelCacheArray, pixelCacheDirty)
         IN updateFromTerrainLayerCaches(arr[0], arr[1])[p]
    ELSE pixelCache[p]

(* The values held by the channel buffers themselves, per layer. *)
bufferLayersAt(p) ==
  [l \in Layers |-> terrainTextures[FloorDiv3(l)][p][l % MAX_CHANNELS]]

(* ----- TerrainMap / Terrain (scene map) ----- *)

(* sceneMap.hasTerrainId(terrain.id) *)
hasTerrainId(sm, terrain) == \E k \in DOMAIN sm : sm[k] = terrain

(* terrain.pixelValue: the key the terrain is bound to in the scene map. *)
pixelValueOf(sm, terrain) ==
  CHOOSE k \in DOMAIN sm : sm[k] = terrain /\ \A j \in DOMAIN sm : sm[j] = terrain => k <= j

(* sceneMap.set(key, terrain) *)
sceneMapSet(sm, key, terrain) ==
  [k \in (DOMAIN sm) \cup {key} |-> IF k = key THEN terrain ELSE sm[k]]

(* sceneMap.add(terrain): binds the lowest unused key of 1..MAX_TERRAIN_ID. *)
sceneMapAdd(sm, terrain) ==
  LET free == (1 .. MAX_TERRAIN_ID) \ DOMAIN sm
      key == CHOOSE k \in free : \A j \in free : k <= j
  IN sceneMapSet(sm, key, terrain)

(* terrain.addToScene() as called by addTerrainShapeToCanvas: _addTerrainToScene. *)
addTerrainToScene(sm, terrain) ==
  IF hasTerrainId(sm, terrain) THEN sm ELSE sceneMapAdd(sm, terrain)

(* ----- ShapeQueue ----- *)

enqueue(queue, elem) == Append(queue, elem)

(* dequeue() removes the most recently appended element; nothing on an empty queue. *)
dequeueRest(queue) == IF queue = <<>> THEN queue ELSE SubSeq(queue, 1, Len(queue) - 1)

(* Indices removed by clean(skip): elements of the older prefix (all but the
   last skip) whose shape is entirely covered by a later element of the queue. *)
cleanRemovedIdx(queue, skip) ==
  {i \in 1 .. (Len(queue) - skip) :
     \E j \in (i + 1) .. Len(queue) : queue[i].shape \subseteq queue[j].shape}

RECURSIVE keepIdx(_, _, _)
keepIdx(queue, removed, i) ==
  IF i > Len(queue) THEN <<>>
  ELSE (IF i \in removed THEN <<>> ELSE <<queue[i]>>) \o keepIdx(queue, removed, i + 1)

(* The queue after clean(skip). *)
cleanKept(queue, skip) == keepIdx(queue, cleanRemovedIdx(queue, skip), 1)

(* The elements clean(skip) returns. *)
cleanRemoved(queue, skip) == {queue[i] : i \in cleanRemovedIdx(queue, skip)}

(* shapeQueue.toJSON(): the shapes, without their graphics. *)
(* The shape class of a shape: a grid cell or a polygon over several cells. *)
shapeType(shape) == IF Cardinality(shape) = 1 THEN "TerrainGridSquare" ELSE "TerrainPolygon"

(* shape.toJSON(): type, geometry, layer and pixel value. *)
shapeToJSON(elem) ==
  [type |-> shapeType(elem.shape), shape |-> elem.shape, layer |-> elem.layer,
   pixelValue |-> elem.pixelValue]
queueToJSON(queue) == [i \in 1 .. Len(queue) |-> shapeToJSON(queue[i])]

(* ----- graphics objects ----- *)

tempGraphicsOf(temps) == {temps[i].graphics : i \in DOMAIN temps}

(* The identity of the next PIXI.Graphics created. *)
freshId(used) == CHOOSE i \in 1 .. (Cardinality(used) + 1) : i \notin used /\ \A j \in 1 .. (i - 1) : j \in used

(* _drawTerrainShape(shape, terrain): a new graphics object tinted with the
   terrain's pixel value in channel layer % 3, added to the layer's container. *)
newGraphics(id, shape, layer, pixelValue) ==
  [id |-> id, shape |-> shape, layer |-> layer, pixelValue |-> pixelValue]

drawTerrainShapeFirstOfBuffer(containers, g) ==
  [containers EXCEPT ![MAX_CHANNELS * FloorDiv3(g.layer)] = Append(@, g)]

drawTerrainShape(containers, g) ==
  [containers EXCEPT ![g.layer] = Append(@, g)]

(* layerContainer.removeChild(graphics) *)
removeChild(containers, layer, g) ==
  [containers EXCEPT ![layer] = SelectSeqNe(@, g)]

(* #removeShape(queueObj) *)
removeShape(containers, g) == removeChild(containers, g.layer, g)

(* shape.origin.key: grid shapes are keyed by their cell. *)
originKey(shape) == CHOOSE p \in shape : \A q \in shape : p <= q

tempIndex(temps, key) == CHOOSE i \in DOMAIN temps : temps[i].key = key
tempHas(temps, key) == \E i \in DOMAIN temps : temps[i].key = key

(* ----- #saveData / importFromJSON ----- *)

(* terrain.id, and Terrain.fromEffectId(id). *)
terrainId(terrain) == terrain[2]
fromEffectId(id) == <<"terrain", id>>

(* #saveData(): the scene map entries as [key, terrain.id] and the queues' JSON. *)
saveData(sm, queues) ==
  [sceneMap |-> [k \in DOMAIN sm |-> terrainId(sm[k])],
   shapeQueueArray |-> [l \in Layers |-> queueToJSON(queues[l])]]

RECURSIVE freshIds(_, _)
freshIds(used, n) ==
  IF n = 0 THEN <<>>
  ELSE LET i == freshId(used) IN <<i>> \o freshIds(used \cup {i}, n - 1)

(* importFromJSON: the scene map is cleared, key 0 bound to the null terrain,
   then every entry of data.sceneMap with a non-zero key is set. *)
importSceneMap(data) ==
  [k \in {0} \cup ((DOMAIN data.sceneMap) \ {0}) |->
     IF k = 0 THEN nullTerrain ELSE fromEffectId(data.sceneMap[k])]

(* importFromJSON: queue i is cleared and refilled from data.shapeQueueArray[i],
   one new graphics object per shape. *)
importQueues(data, usedIds) ==
  LET dq == data.shapeQueueArray
      ids == freshIds(usedIds, SumLen(dq, Layers))
  IN [l \in Layers |->
        [i \in 1 .. Len(dq[l]) |->
           newGraphics(ids[SumLen(dq, 0 .. (l - 1)) + i],
                       dq[l][i].shape, dq[l][i].layer, dq[l][i].pixelValue)]]

RECURSIVE importChildren(_, _, _)
importChildren(queues, container, i) ==
  IF i >= MAX_LAYERS THEN <<>>
  ELSE SelectSeq(queues[i], LAMBDA g : g.layer = container)
         \o importChildren(queues, container, i + 1)

(* The containers after importFromJSON emptied them and drew the imported shapes. *)
importContainers(queues) == [c \in Layers |-> importChildren(queues, c, 0)]

importable(data) ==
  /\ data # NoData
  /\ \A l \in Layers : \A i \in DOMAIN data.shapeQueueArray[l] :
       data.shapeQueueArray[l][i].pixelValue \in DOMAIN importSceneMap(data)
  /\ SumLen(data.shapeQueueArray, Layers) + Cardinality(tempGraphicsOf(temporaryGraphics))
       <= MaxShapes

(* ----- cleanAllShapeQueues ----- *)

(* Variant: clean() called without the undo window. *)
cleanShapeQueueNoSkip(st, layerNum) ==
  LET queue == st.q[layerNum]
  IN IF Len(queue) < NUM_UNDO THEN st
     ELSE LET removedElements == cleanRemoved(queue, 0)
              q2 == [st.q EXCEPT ![layerNum] = cleanKept(queue, 0)]
              c2 == [l \in Layers |->
                       SelectSeq(st.c[l], LAMBDA g : ~(g \in removedElements /\ g.layer = l))]
          IN IF removedElements = {} THEN [st EXCEPT !.q = q2]
             ELSE [q |-> q2, c |-> c2,
                   t |-> renderTerrainTextures(st.t, c2, layerNum),
                   d |-> clearPixelCacheArray(st.d, layerNum)]

(* Variant: the graphics of the elements that stay queued are removed
   instead of those of the removed elements. *)
cleanShapeQueueWrongGraphics(st, layerNum) ==
  LET queue == st.q[layerNum]
  IN IF Len(queue) < NUM_UNDO THEN st
     ELSE LET removedElements == cleanRemoved(queue, NUM_UNDO)
              q2 == [st.q EXCEPT ![layerNum] = cleanKept(queue, NUM_UNDO)]
              c2 == [l \in Layers |->
                       SelectSeq(st.c[l], LAMBDA g : g \in removedElements \/ g.layer # layerNum)]
          IN IF removedElements = {} THEN [st EXCEPT !.q = q2]
             ELSE [q |-> q2, c |-> c2,
                   t |-> renderTerrainTextures(st.t, c2, layerNum),
                   d |-> clearPixelCacheArray(st.d, layerNum)]

(* #cleanShapeQueue(layerNum) on st = [q: queues, c: containers, t: textures, d: dirty bits]. *)
cleanShapeQueue(st, layerNum) ==
  LET skip == NUM_UNDO
      queue == st.q[layerNum]
  IN IF Len(queue) < skip THEN st
     ELSE LET removedElements == cleanRemoved(queue, skip)
              q2 == [st.q EXCEPT ![layerNum] = cleanKept(queue, skip)]
          IN IF removedElements = {} THEN [st EXCEPT !.q = q2]
             ELSE LET c2 == [l \in Layers |->
                               SelectSeq(st.c[l],
                                 LAMBDA g : ~(g \in removedElements /\ g.layer = l))]
                  IN [q |-> q2, c |-> c2,
                      t |-> renderTerrainTextures(st.t, c2, layerNum),
                      d |-> clearPixelCacheArray(st.d, layerNum)]

RECURSIVE cleanLoop(_, _)
cleanLoop(st, i) ==
  IF i >= MAX_LAYERS THEN st ELSE cleanLoop(cleanShapeQueue(st, i), i + 1)

cleanAllShapeQueues(st) == cleanLoop(st, 0)

(* ----- initial state: the layer object after construction ----- *)

Op(name, layer) == [op |-> name, layer |-> layer]

(* The (point, layer) pairs covered by a shape of the layer's queue. *)
queuedCover(queues) ==
  {pl \in Points \X Layers : \E i \in DOMAIN queues[pl[2]] : pl[1] \in queues[pl[2]][i].shape}

(* History kept beside every operation: what has ever been enqueued. *)
trackEnqueued == everEnqueued' = everEnqueued \cup queuedCover(shapeQueueArray')

Init ==
  /\ initialized = FALSE
  /\ requiresSave = FALSE
  /\ sceneMap = [k \in {} |-> nullTerrain]
  /\ shapeQueueArray = EmptyQueues
  /\ graphicsLayers = EmptyQueues
  /\ terrainTextures = [t \in Textures |-> BlankTexture]
  /\ pixelCacheArray = [t \in Textures |-> BlankTexture]
  /\ pixelCache = updateFromTerrainLayerCaches(BlankTexture, BlankTexture)
  /\ pixelCacheDirty = [t \in Textures |-> 1]
  /\ temporaryGraphics = <<>>
  /\ storedData = NoData
  /\ lock = <<>>
  /\ saves = [s \in Savers |-> IdleSave]
  /\ tearDown = "idle"
  /\ returned = Undefined
  /\ lastOp = Op("new", -1)
  /\ everEnqueued = {}
  /\ initializing = [c \in InitCalls |-> "idle"]
  /\ dispatched = Undefined
  /\ lastDestination = Undefined
  /\ eventData = Undefined
  /\ requestedDestination = Undefined

(* ----- operations ----- *)

(* importFromJSON(json) *)
importFromJSON(data) ==
  /\ initialized
  /\ importable(data)
  /\ LET queues == importQueues(data, {g.id : g \in tempGraphicsOf(temporaryGraphics)})
         containers == importContainers(queues)
         dirty1 == clearPixelCacheArray(pixelCacheDirty, -1)
     IN /\ sceneMap' = importSceneMap(data)
        /\ shapeQueueArray' = queues
        /\ graphicsLayers' = containers
        /\ terrainTextures' = renderTerrainTextures(terrainTextures, containers, -1)
        /\ pixelCacheDirty' = clearPixelCacheArray(dirty1, -1)
  /\ lastOp' = Op("importFromJSON", -1)
  /\ UNCHANGED <<initialized, requiresSave, pixelCacheArray, pixelCache,
                 temporaryGraphics, storedData>>
  /\ UNCHANGED asyncVars
  /\ trackEnqueued
  /\ UNCHANGED <<regionVars, initializing>>

(* initialize() on a scene without stored data: loadSceneData binds key 0,
   #initializePixelCache builds the caches from the new textures,
   _clearPixelCacheArray() and renderTerrain() follow. *)
initialize ==
  /\ ~initialized
  /\ storedData = NoData
  /\ sceneMap' = IF 0 \in DOMAIN sceneMap THEN sceneMap ELSE sceneMapSet(sceneMap, 0, nullTerrain)
  /\ LET texs == [t \in Textures |-> BlankTexture]
         arr == [t \in Textures |-> updateFromTexture(texs[t])]
         dirty1 == clearPixelCacheArray(pixelCacheDirty, -1)
     IN /\ pixelCacheArray' = arr
        /\ pixelCache' = updateFromTerrainLayerCaches(arr[0], arr[1])
        /\ terrainTextures' = renderTerrainTextures(texs, graphicsLayers, -1)
        /\ pixelCacheDirty' = clearPixelCacheArray(dirty1, -1)
  /\ initialized' = TRUE
  /\ lastOp' = Op("initialize", -1)
  /\ UNCHANGED <<requiresSave, shapeQueueArray, graphicsLayers, temporaryGraphics, storedData>>
  /\ UNCHANGED asyncVars
  /\ trackEnqueued
  /\ UNCHANGED <<regionVars, initializing>>

(* Variant: the merged six-layer cache is not recomputed. *)
refreshPixelCacheNoMerge ==
  LET arr == refreshPixelCacheArrays(terrainTextures, pixelCacheArray, pixelCacheDirty)
  IN /\ pixelCacheArray' = arr
     /\ pixelCacheDirty' = [t \in Textures |-> 0]
     /\ pixelCache' = pixelCache

(* _terrainLayersAt(pt): reads this.pixelCache, whose getter runs
   #refreshPixelCache when a dirty bit is set. *)
refreshPixelCache ==
  LET arr == refreshPixelCacheArrays(terrainTextures, pixelCacheArray, pixelCacheDirty)
  IN /\ pixelCacheArray' = arr
     /\ pixelCacheDirty' = [t \in Textures |-> IF pixelCacheDirty[t] # 0 THEN 0 ELSE pixelCacheDirty[t]]
     /\ pixelCache' = updateFromTerrainLayerCaches(arr[0], arr[1])

terrainLayersAt(p) ==
  /\ initialized
  /\ IF pixelCacheDirtyAny(pixelCacheDirty)
       THEN refreshPixelCache
       ELSE UNCHANGED <<pixelCacheArray, pixelCacheDirty, pixelCache>>
  /\ lastOp' = Op("terrainLayersAt", -1)
  /\ UNCHANGED <<initialized, requiresSave, sceneMap, shapeQueueArray, graphicsLayers,
                 terrainTextures, temporaryGraphics, storedData>>
  /\ UNCHANGED asyncVars
  /\ trackEnqueued
  /\ UNCHANGED <<regionVars, initializing>>

(* The fields addTerrainShapeToCanvas reads and writes, as a record. *)
paintState ==
  [sceneMap |-> sceneMap, shapeQueueArray |-> shapeQueueArray,
   graphicsLayers |-> graphicsLayers, terrainTextures |-> terrainTextures,
   pixelCacheDirty |-> pixelCacheDirty, temporaryGraphics |-> temporaryGraphics,
   requiresSave |-> requiresSave]

liveIdsOf(st) ==
  {g.id : g \in UNION {Range(st.shapeQueueArray[l]) : l \in Layers}
                  \cup UNION {Range(st.graphicsLayers[l]) : l \in Layers}
                  \cup tempGraphicsOf(st.temporaryGraphics)}

(* The graphics objects still referenced once addTerrainShapeToCanvas has
   dropped the temporary graphics it replaces. *)
keptIds(st, shape, temporary) ==
  IF temporary /\ tempHas(st.temporaryGraphics, originKey(shape))
    THEN liveIdsOf(st)
           \ {st.temporaryGraphics[tempIndex(st.temporaryGraphics, originKey(shape))].graphics.id}
    ELSE liveIdsOf(st)

(* addTerrainShapeToCanvas(shape, terrain, { temporary }) with
   toolbar.currentLayer = currentLayer: the fields after the call. *)
addShape(st, shape, terrain, temporary, currentLayer) ==
  LET sm == IF hasTerrainId(st.sceneMap, terrain) THEN st.sceneMap
                                                  ELSE addTerrainToScene(st.sceneMap, terrain)
      pixelValue == pixelValueOf(sm, terrain)
      key == originKey(shape)
      replace == temporary /\ tempHas(st.temporaryGraphics, key)
      oldValues == st.temporaryGraphics[tempIndex(st.temporaryGraphics, key)]
      c1 == IF replace
              THEN removeChild(st.graphicsLayers, oldValues.graphics.layer, oldValues.graphics)
              ELSE st.graphicsLayers
      graphics == newGraphics(freshId(keptIds(st, shape, temporary)), shape, currentLayer, pixelValue)
      c2 == drawTerrainShape(c1, graphics)
  IN [sceneMap |-> sm,
      graphicsLayers |-> c2,
      terrainTextures |-> renderTerrainTextures(st.terrainTextures, c2, currentLayer),
      pixelCacheDirty |-> clearPixelCacheArray(st.pixelCacheDirty, currentLayer),
      temporaryGraphics |->
        IF ~temporary THEN st.temporaryGraphics
        ELSE IF replace
          THEN [st.temporaryGraphics EXCEPT ![tempIndex(st.temporaryGraphics, key)] =
                  [key |-> key, graphics |-> graphics]]
          ELSE Append(st.temporaryGraphics, [key |-> key, graphics |-> graphics]),
      shapeQueueArray |->
        IF temporary THEN st.shapeQueueArray
        ELSE [st.shapeQueueArray EXCEPT ![currentLayer] = enqueue(@, graphics)],
      requiresSave |-> ~temporary]

addTerrainShapeToCanvas(shape, terrain, temporary, currentLayer) ==
  /\ initialized
  /\ Cardinality(keptIds(paintState, shape, temporary)) < MaxShapes
  /\ LET st == addShape(paintState, shape, terrain, temporary, currentLayer)
     IN /\ sceneMap' = st.sceneMap
        /\ graphicsLayers' = st.graphicsLayers
        /\ terrainTextures' = st.terrainTextures
        /\ pixelCacheDirty' = st.pixelCacheDirty
        /\ temporaryGraphics' = st.temporaryGraphics
        /\ shapeQueueArray' = st.shapeQueueArray
        /\ requiresSave' = st.requiresSave
  /\ lastOp' = Op(IF temporary THEN "addTemporary" ELSE "add", currentLayer)
  /\ UNCHANGED <<initialized, pixelCacheArray, pixelCache, storedData>>
  /\ UNCHANGED asyncVars
  /\ trackEnqueued
  /\ UNCHANGED <<regionVars, initializing>>

(* Variant: the save flag is raised before the empty-queue return. *)
undoFlagFirst(currLayer) ==
  /\ initialized
  /\ LET queue == shapeQueueArray[currLayer]
     IN IF queue = <<>>
          THEN /\ lastOp' = Op("undo", currLayer)
               /\ requiresSave' = TRUE
               /\ UNCHANGED <<shapeQueueArray, graphicsLayers, terrainTextures, pixelCacheDirty>>
          ELSE LET queueObj == queue[Len(queue)]
                   c2 == removeShape(graphicsLayers, queueObj)
               IN /\ shapeQueueArray' = [shapeQueueArray EXCEPT ![currLayer] = dequeueRest(queue)]
                  /\ graphicsLayers' = c2
                  /\ requiresSave' = TRUE
                  /\ terrainTextures' = renderTerrainTextures(terrainTextures, c2, queueObj.layer)
                  /\ pixelCacheDirty' = clearPixelCacheArray(pixelCacheDirty, queueObj.layer)
                  /\ lastOp' = Op("undo", currLayer)
  /\ UNCHANGED <<initialized, sceneMap, pixelCacheArray, pixelCache,
                 temporaryGraphics, storedData>>
  /\ UNCHANGED asyncVars
  /\ trackEnqueued
  /\ UNCHANGED <<regionVars, initializing>>

(* Variant: the oldest element of the queue is removed instead of the newest. *)
undoOldest(currLayer) ==
  /\ initialized
  /\ LET queue == shapeQueueArray[currLayer]
     IN IF queue = <<>>
          THEN /\ lastOp' = Op("undo", currLayer)
               /\ UNCHANGED <<requiresSave, shapeQueueArray, graphicsLayers,
                              terrainTextures, pixelCacheDirty>>
          ELSE LET queueObj == queue[1]
                   c2 == removeShape(graphicsLayers, queueObj)
               IN /\ shapeQueueArray' = [shapeQueueArray EXCEPT ![currLayer] = Tail(queue)]
                  /\ graphicsLayers' = c2
                  /\ requiresSave' = TRUE
                  /\ terrainTextures' = renderTerrainTextures(terrainTextures, c2, queueObj.layer)
                  /\ pixelCacheDirty' = clearPixelCacheArray(pixelCacheDirty, queueObj.layer)
                  /\ lastOp' = Op("undo", currLayer)
  /\ UNCHANGED <<initialized, sceneMap, pixelCacheArray, pixelCache,
                 temporaryGraphics, storedData>>
  /\ UNCHANGED asyncVars
  /\ trackEnqueued
  /\ UNCHANGED <<regionVars, initializing>>

(* undo() with toolbar.currentLayer = currLayer *)
undo(currLayer) ==
  /\ initialized
  /\ LET queue == shapeQueueArray[currLayer]
     IN IF queue = <<>>
          THEN /\ lastOp' = Op("undo", currLayer)
               /\ UNCHANGED <<requiresSave, shapeQueueArray, graphicsLayers,
                              terrainTextures, pixelCacheDirty>>
          ELSE LET queueObj == queue[Len(queue)]
                   c2 == removeShape(graphicsLayers, queueObj)
               IN /\ shapeQueueArray' = [shapeQueueArray EXCEPT ![currLayer] = dequeueRest(queue)]
                  /\ graphicsLayers' = c2
                  /\ requiresSave' = TRUE
                  /\ terrainTextures' = renderTerrainTextures(terrainTextures, c2, queueObj.layer)
                  /\ pixelCacheDirty' = clearPixelCacheArray(pixelCacheDirty, queueObj.layer)
                  /\ lastOp' = Op("undo", currLayer)
  /\ UNCHANGED <<initialized, sceneMap, pixelCacheArray, pixelCache,
                 temporaryGraphics, storedData>>
  /\ UNCHANGED asyncVars
  /\ trackEnqueued
  /\ UNCHANGED <<regionVars, initializing>>

(* clearData(): _clearData(), _requiresSave = false, renderTerrain() *)
clearData ==
  /\ initialized
  /\ shapeQueueArray' = EmptyQueues
  /\ graphicsLayers' = EmptyQueues
  /\ requiresSave' = FALSE
  /\ terrainTextures' = renderTerrainTextures(terrainTextures, EmptyQueues, -1)
  /\ pixelCacheDirty' = clearPixelCacheArray(clearPixelCacheArray(pixelCacheDirty, -1), -1)
  /\ lastOp' = Op("clearData", -1)
  /\ UNCHANGED <<initialized, sceneMap, pixelCacheArray, pixelCache,
                 temporaryGraphics, storedData>>
  /\ UNCHANGED asyncVars
  /\ trackEnqueued
  /\ UNCHANGED <<regionVars, initializing>>

(* save(), run from the acquire of a free lock to its release with no other
   handler in between: cleanAllShapeQueues(), then saveSceneData() writes #saveData(). *)
save ==
  /\ initialized
  /\ lock = <<>>
  /\ LET st == cleanAllShapeQueues([q |-> shapeQueueArray, c |-> graphicsLayers,
                                    t |-> terrainTextures, d |-> pixelCacheDirty])
     IN /\ shapeQueueArray' = st.q
        /\ graphicsLayers' = st.c
        /\ terrainTextures' = st.t
        /\ pixelCacheDirty' = st.d
        /\ storedData' = saveData(sceneMap, st.q)
  /\ lastOp' = Op("save", -1)
  /\ UNCHANGED <<initialized, requiresSave, sceneMap, pixelCacheArray, pixelCache,
                 temporaryGraphics>>
  /\ UNCHANGED asyncVars
  /\ trackEnqueued
  /\ UNCHANGED <<regionVars, initializing>>

RECURSIVE enqueueTemps(_, _, _)
enqueueTemps(queues, temps, i) ==
  IF i > Len(temps) THEN queues
  ELSE enqueueTemps([queues EXCEPT ![temps[i].graphics.layer] = enqueue(@, temps[i].graphics)],
                    temps, i + 1)

makeTemporaryGraphicsPermanentKeep ==
  /\ initialized
  /\ shapeQueueArray' = enqueueTemps(shapeQueueArray, temporaryGraphics, 1)
  /\ lastOp' = Op("makeTemporaryGraphicsPermanent", -1)
  /\ UNCHANGED <<initialized, requiresSave, sceneMap, graphicsLayers, terrainTextures,
                 pixelCacheArray, pixelCache, pixelCacheDirty, storedData, temporaryGraphics>>
  /\ UNCHANGED asyncVars
  /\ trackEnqueued
  /\ UNCHANGED <<regionVars, initializing>>

(* _makeTemporaryGraphicsPermanent() *)
makeTemporaryGraphicsPermanent ==
  /\ initialized
  /\ shapeQueueArray' = enqueueTemps(shapeQueueArray, temporaryGraphics, 1)
  /\ temporaryGraphics' = <<>>
  /\ lastOp' = Op("makeTemporaryGraphicsPermanent", -1)
  /\ UNCHANGED <<initialized, requiresSave, sceneMap, graphicsLayers, terrainTextures,
                 pixelCacheArray, pixelCache, pixelCacheDirty, storedData>>
  /\ UNCHANGED asyncVars
  /\ trackEnqueued
  /\ UNCHANGED <<regionVars, initializing>>

(* _clearTemporaryGraphics(): this._graphicsContainer is assigned nowhere in the
   class.  Either the first removeChild throws (threw) and nothing changes, or
   the host object supplies the container: then each temporary graphics is
   destroyed (which detaches it from its layer container) and the map is
   cleared.  No texture is rendered either way. *)
clearTemporaryGraphics ==
  /\ initialized
  /\ \E threw \in BOOLEAN :
       IF threw /\ temporaryGraphics # <<>>
         THEN UNCHANGED <<graphicsLayers, temporaryGraphics>>
         ELSE /\ graphicsLayers' =
                   [l \in Layers |->
                      SelectSeq(graphicsLayers[l],
                                LAMBDA g : g \notin tempGraphicsOf(temporaryGraphics))]
              /\ temporaryGraphics' = <<>>
  /\ lastOp' = Op("clearTemporaryGraphics", -1)
  /\ UNCHANGED <<initialized, requiresSave, sceneMap, shapeQueueArray, terrainTextures,
                 pixelCacheArray, pixelCache, pixelCacheDirty, storedData>>
  /\ UNCHANGED asyncVars
  /\ trackEnqueued
  /\ UNCHANGED <<regionVars, initializing>>

(* ----- Terrain Query Facade / TerrainLevel ----- *)

(* What "canvas.terrain.controls.currentTerrain" and a scene-map lookup of an
   unbound key evaluate to: no terrain object. *)
UndefinedTerrain == <<"undefined", 0>>

(* terrainForPixel(pixelValue): sceneMap.get(pixelValue) *)
terrainForPixel(sm, pixelValue) ==
  IF pixelValue \in DOMAIN sm THEN sm[pixelValue] ELSE UndefinedTerrain

(* new TerrainLevel(terrain, level): terrain ?? controls.currentTerrain. *)
newTerrainLevel(terrain, level) ==
  [terrain |-> IF terrain = UndefinedTerrain THEN UndefinedTerrain ELSE terrain,
   level |-> level]

(* _layersToTerrainLevels(terrainLayers), from layer i on. *)
RECURSIVE layersToTerrainLevels(_, _, _)
layersToTerrainLevels(sm, terrainLayers, i) ==
  IF i >= MAX_LAYERS THEN <<>>
  ELSE LET px == terrainLayers[i]
       IN (IF px = 0 THEN <<>> ELSE <<newTerrainLevel(terrainForPixel(sm, px), i)>>)
            \o layersToTerrainLevels(sm, terrainLayers, i + 1)

(* terrainLevelsAt(pt) evaluated in the current state. *)
terrainLevelsAtPoint(p) ==
  IF ~initialized THEN <<>>
  ELSE layersToTerrainLevels(sceneMap, terrainLayersAtPoint(p), 0)

(* Variant: the terrain of every layer is collected, pixel value 0 included. *)
terrainsAtPointAllLayers(p) ==
  IF ~initialized THEN {}
  ELSE {terrainForPixel(sceneMap, terrainLayersAtPoint(p)[l]) : l \in Layers}

(* terrainsAt(pt): new Set(terrainLevelsAt(pt).map(t => t.terrain)) *)
terrainsAtPoint(p) == {lvl.terrain : lvl \in Range(terrainLevelsAtPoint(p))}

(* Terrain attributes (Terrain.js): the anchor mode and the elevation offsets. *)
ABSOLUTE == "absolute"
RELATIVE_TO_TERRAIN == "relativeToTerrain"
RELATIVE_TO_LAYER == "relativeToLayer"

terrainAnchor(terrain) ==
  IF terrainId(terrain) = 1 THEN ABSOLUTE
  ELSE IF terrainId(terrain) = 2 THEN RELATIVE_TO_LAYER
  ELSE RELATIVE_TO_TERRAIN

terrainOffsets(terrain) == [min |-> 0, max |-> 2]

(* The scene's layer elevations flag and the elevation of the ground. *)
layerElevations == [l \in Layers |-> IF l >= MAX_CHANNELS THEN 10 ELSE 0]
elevationAt(p) == IF p = 1 THEN 0 ELSE 10

(* Numbers as the facade computes with them, beside undefined and NaN. *)
Num(n) == [num |-> n]
IsNum(v) == "num" \in DOMAIN v

(* this.anchor of a TerrainLevel: the class defines no such field. *)
levelAnchor(lvl) == Undefined

(* TerrainLevel.getAnchorElevation(location): the switch on this.anchor.
   "terrainElevation" is not defined in the module (a ReferenceError) and
   this._layerElevation is the method itself, not its result. *)
getAnchorElevation(lvl, location) ==
  IF levelAnchor(lvl) = Num(0) THEN Num(0)
  ELSE IF levelAnchor(lvl) = [anchor |-> ABSOLUTE] THEN Num(0)
  ELSE IF levelAnchor(lvl) = [anchor |-> RELATIVE_TO_TERRAIN] THEN [throws |-> "ReferenceError"]
  ELSE IF levelAnchor(lvl) = [anchor |-> RELATIVE_TO_LAYER] THEN [function |-> "_layerElevation"]
  ELSE Undefined

(* terrain._elevationMinMaxForAnchorElevation(anchorE): the offsets added to
   the anchor elevation; NaN when the anchor elevation is not a number. *)
elevationMinMaxForAnchorElevation(terrain, anchorE) ==
  IF IsNum(anchorE)
    THEN [min |-> Num(anchorE.num + terrainOffsets(terrain).min),
          max |-> Num(anchorE.num + terrainOffsets(terrain).max)]
    ELSE [min |-> NaN, max |-> NaN]

(* TerrainLevel.elevationRange(location) *)
elevationRange(lvl, location) ==
  elevationMinMaxForAnchorElevation(lvl.terrain, getAnchorElevation(lvl, location))

(* elevation.between(min, max) *)
between(elevation, min, max) ==
  IsNum(min) /\ IsNum(max) /\ min.num <= elevation /\ elevation <= max.num

(* TerrainLevel.activeAt(elevation, location) *)
activeAt(lvl, elevation, location) ==
  LET minMaxE == elevationRange(lvl, location)
  IN between(elevation, minMaxE.min, minMaxE.max)

(* activeTerrainLevelsAt(pt, elevation) evaluated in the current state; a
   level without a terrain object makes elevationRange throw. *)
activeTerrainLevelsAtPoint(p, elevation) ==
  LET terrainLevels == terrainLevelsAtPoint(p)
  IN IF \E i \in DOMAIN terrainLevels : terrainLevels[i].terrain = UndefinedTerrain
       THEN [throws |-> "TypeError"]
       ELSE [value |-> SelectSeq(terrainLevels, LAMBDA lvl : activeAt(lvl, elevation, p))]

(* A facade query: the read of this.pixelCache it makes, and its result. *)
query(name, result) ==
  /\ IF initialized /\ pixelCacheDirtyAny(pixelCacheDirty)
       THEN refreshPixelCache
       ELSE UNCHANGED <<pixelCacheArray, pixelCacheDirty, pixelCache>>
  /\ returned' = result
  /\ lastOp' = Op(name, -1)
  /\ UNCHANGED <<initialized, requiresSave, sceneMap, shapeQueueArray, graphicsLayers,
                 terrainTextures, temporaryGraphics, storedData, lock, saves, tearDown>>
  /\ trackEnqueued
  /\ UNCHANGED <<regionVars, initializing>>

(* terrainLevelsAt(pt) *)
terrainLevelsAt(p) == query("terrainLevelsAt", [at |-> p, value |-> terrainLevelsAtPoint(p)])

(* terrainsAt(pt) *)
terrainsAt(p) == query("terrainsAt", [at |-> p, value |-> terrainsAtPoint(p)])

(* activeTerrainLevelsAt(pt, elevation) *)
activeTerrainLevelsAt(p, elevation) ==
  query("activeTerrainLevelsAt",
        [at |-> p, elevation |-> elevation] @@ activeTerrainLevelsAtPoint(p, elevation))

(* ----- Lock ----- *)

(* lock.acquire() by caller s: s holds the lock at once when it is free and
   queues behind the holder otherwise. *)
lockAcquire(lk, s) == Append(lk, s)

(* lock.release(): the lock passes to the caller that has waited longest. *)
lockRelease(lk) == Tail(lk)

lockHeldBy(lk, s) == lk # <<>> /\ Head(lk) = s

(* ----- save(), step by step ----- *)

(* The fields a save() call reads and writes, as a record. *)
saveState ==
  [q |-> shapeQueueArray, c |-> graphicsLayers, t |-> terrainTextures,
   d |-> pixelCacheDirty, lock |-> lock, saves |-> saves]

(* Variant: the snapshot is taken before the compaction. *)
enterSaveSnapshotFirst(w, s) ==
  LET st == cleanAllShapeQueues([q |-> w.q, c |-> w.c, t |-> w.t, d |-> w.d])
  IN [q |-> st.q, c |-> st.c, t |-> st.t, d |-> st.d, lock |-> w.lock,
      saves |-> [w.saves EXCEPT ![s] = [pc |-> "write",
                                        snapshot |-> saveData(sceneMap, w.q),
                                        writes |-> @.writes + 1]]]

(* save() of caller s from the point where lock.acquire() has resolved up to
   its next await: cleanAllShapeQueues(), then saveSceneData() evaluates
   #saveData() and hands the snapshot to the file manager. *)
enterSave(w, s) ==
  LET st == cleanAllShapeQueues([q |-> w.q, c |-> w.c, t |-> w.t, d |-> w.d])
  IN [q |-> st.q, c |-> st.c, t |-> st.t, d |-> st.d, lock |-> w.lock,
      saves |-> [w.saves EXCEPT ![s] = [pc |-> "write",
                                        snapshot |-> saveData(sceneMap, st.q),
                                        writes |-> @.writes + 1]]]

(* Variant: save() enters without waiting for the lock. *)
callSaveNoWait(w, s) ==
  enterSave([w EXCEPT !.lock = lockAcquire(w.lock, s)], s)

(* save() called by s, up to its first await that does not resolve at once. *)
callSave(w, s) ==
  LET w1 == [w EXCEPT !.lock = lockAcquire(w.lock, s)]
  IN IF lockHeldBy(w1.lock, s)
       THEN enterSave(w1, s)
       ELSE [w1 EXCEPT !.saves[s].pc = "acquire"]

(* The end of save() of the holder: lock.release(); the save() that waited
   longest resumes from its acquire. *)
leaveSave(w, s) ==
  LET w1 == [w EXCEPT !.lock = lockRelease(w.lock), !.saves[s].pc = "done"]
  IN IF w1.lock = <<>> THEN w1 ELSE enterSave(w1, Head(w1.lock))

(* _clearData() on the fields of a save state. *)
clearDataState(w) ==
  [w EXCEPT !.q = EmptyQueues, !.c = EmptyQueues, !.d = clearPixelCacheArray(w.d, -1)]

(* A save state written back to the variables. *)
setSaveState(w) ==
  /\ shapeQueueArray' = w.q
  /\ graphicsLayers' = w.c
  /\ terrainTextures' = w.t
  /\ pixelCacheDirty' = w.d
  /\ lock' = w.lock
  /\ saves' = w.saves

(* _deactivate(): starts a save, not awaited, when _requiresSave is set. *)
deactivate ==
  /\ initialized
  /\ tearDown = "idle"
  /\ saves["deactivate"].pc = "idle"
  /\ IF requiresSave
       THEN setSaveState(callSave(saveState, "deactivate"))
       ELSE UNCHANGED <<shapeQueueArray, graphicsLayers, terrainTextures,
                        pixelCacheDirty, lock, saves>>
  /\ lastOp' = Op("deactivate", -1)
  /\ UNCHANGED <<initialized, requiresSave, sceneMap, pixelCacheArray, pixelCache,
                 temporaryGraphics, storedData, tearDown, returned>>
  /\ trackEnqueued
  /\ UNCHANGED <<regionVars, initializing>>

(* _tearDown(), up to "await this.save()" when _requiresSave is set, and to its
   end otherwise: _clearData(), #destroy(), #initialized = false. *)
tearDownCall ==
  /\ initialized
  /\ tearDown = "idle"
  /\ IF requiresSave
       THEN /\ setSaveState(callSave(saveState, "tearDown"))
            /\ tearDown' = "awaiting"
            /\ UNCHANGED initialized
       ELSE /\ setSaveState(clearDataState(saveState))
            /\ tearDown' = "done"
            /\ initialized' = FALSE
  /\ lastOp' = Op("tearDown", -1)
  /\ UNCHANGED <<requiresSave, sceneMap, pixelCacheArray, pixelCache,
                 temporaryGraphics, storedData, returned>>
  /\ trackEnqueued
  /\ UNCHANGED <<regionVars, initializing>>

(* Variant: a failed write is attempted again. *)
saveSettledRetry(s) ==
  /\ saves[s].pc = "write"
  /\ \E ok \in BOOLEAN :
       IF ok
         THEN /\ storedData' = saves[s].snapshot
              /\ setSaveState(leaveSave(saveState, s))
         ELSE /\ saves' = [saves EXCEPT ![s].writes = @ + 1]
              /\ saves[s].writes < 2
              /\ UNCHANGED <<storedData, shapeQueueArray, graphicsLayers,
                             terrainTextures, pixelCacheDirty, lock>>
  /\ lastOp' = Op("saveSettled", -1)
  /\ UNCHANGED <<initialized, tearDown, requiresSave, sceneMap, pixelCacheArray,
                 pixelCache, temporaryGraphics, returned>>
  /\ trackEnqueued
  /\ UNCHANGED <<regionVars, initializing>>

(* _fileManager.saveData(snapshot) of save() of caller s settles.
   Resolved: the file holds the snapshot, save() releases the lock and
   returns; a _tearDown awaiting it goes on to _clearData(), #destroy() and
   #initialized = false.  Rejected: the exception leaves save() (the lock is
   not released) and a _tearDown awaiting it. *)
saveSettled(s) ==
  /\ saves[s].pc = "write"
  /\ \E ok \in BOOLEAN :
       IF ok
         THEN /\ storedData' = saves[s].snapshot
              /\ IF s = "tearDown" /\ tearDown = "awaiting"
                   THEN /\ setSaveState(clearDataState(leaveSave(saveState, s)))
                        /\ tearDown' = "done"
                        /\ initialized' = FALSE
                   ELSE /\ setSaveState(leaveSave(saveState, s))
                        /\ UNCHANGED <<tearDown, initialized>>
         ELSE /\ saves' = [saves EXCEPT ![s].pc = "failed"]
              /\ tearDown' = IF s = "tearDown" /\ tearDown = "awaiting" THEN "failed" ELSE tearDown
              /\ UNCHANGED <<storedData, shapeQueueArray, graphicsLayers, terrainTextures,
                             pixelCacheDirty, lock, initialized>>
  /\ lastOp' = Op("saveSettled", -1)
  /\ UNCHANGED <<requiresSave, sceneMap, pixelCacheArray, pixelCache,
                 temporaryGraphics, returned>>
  /\ trackEnqueued
  /\ UNCHANGED <<regionVars, initializing>>

(* ----- scene map operations ----- *)

MaxNewTerrains == 1

(* new Terrain(): a terrain created on demand, with an id no other terrain has. *)
NewTerrains == {<<"terrain", MAX_TERRAIN_ID + n>> : n \in 1 .. MaxNewTerrains}

boundTerrains(sm) == {sm[k] : k \in DOMAIN sm}

newTerrain(sm) ==
  LET unused == NewTerrains \ boundTerrains(sm)
  IN CHOOSE t \in unused : \A u \in unused : terrainId(t) <= terrainId(u)

isPixelValueInSceneFirstLayer(queues, pixelValue) ==
  IF pixelValue = 0 \/ pixelValue < 0 \/ pixelValue > MAX_TERRAIN_ID THEN FALSE
  ELSE \E i \in 1 .. Len(queues[0]) : queues[0][i].pixelValue = pixelValue

(* isPixelValueInScene(pixelValue) *)
isPixelValueInScene(queues, pixelValue) ==
  IF pixelValue = 0 \/ pixelValue < 0 \/ pixelValue > MAX_TERRAIN_ID THEN FALSE
  ELSE \E l \in Layers : \E i \in 1 .. Len(queues[l]) : queues[l][i].pixelValue = pixelValue

(* sceneMap.delete(key): the entry of key is dropped. *)
sceneMapDelete(sm, key) == [k \in (DOMAIN sm) \ {key} |-> sm[k]]

(* The registry's release(key): refused with KeyInUse while a queued shape
   carries the key, otherwise the key is deleted. *)
release(sm, queues, key) ==
  IF isPixelValueInScene(queues, key)
    THEN [throws |-> "KeyInUse", sceneMap |-> sm]
    ELSE [throws |-> "none", sceneMap |-> sceneMapDelete(sm, key)]

(* The guard shared by _removeTerrainFromScene and #removeTerrainFromSceneMap:
   !this._inSceneMap(terrain) || !terrain.pixelValue *)
notRemovable(sm, terrain) ==
  IF hasTerrainId(sm, terrain) THEN pixelValueOf(sm, terrain) = 0 ELSE TRUE

removeTerrainFromSceneDelete(terrain) ==
  /\ IF notRemovable(sceneMap, terrain) THEN TRUE
                                         ELSE NewTerrains \ boundTerrains(sceneMap) # {}
  /\ IF notRemovable(sceneMap, terrain)
       THEN /\ returned' = Undefined
            /\ UNCHANGED <<sceneMap, requiresSave>>
       ELSE /\ sceneMap' = sceneMapDelete(sceneMap, pixelValueOf(sceneMap, terrain))
            /\ requiresSave' = TRUE
            /\ returned' = [newTerrain |-> newTerrain(sceneMap)]
  /\ lastOp' = Op("removeTerrainFromScene", -1)
  /\ UNCHANGED <<initialized, shapeQueueArray, graphicsLayers, terrainTextures,
                 pixelCacheArray, pixelCache, pixelCacheDirty, temporaryGraphics,
                 storedData, lock, saves, tearDown>>
  /\ trackEnqueued
  /\ UNCHANGED <<regionVars, initializing>>

(* _removeTerrainFromScene(terrain): the key of the terrain is bound to a new
   terrain; the shapes that carry the key are left as they are. *)
removeTerrainFromScene(terrain) ==
  /\ IF notRemovable(sceneMap, terrain) THEN TRUE
                                         ELSE NewTerrains \ boundTerrains(sceneMap) # {}
  /\ IF notRemovable(sceneMap, terrain)
       THEN /\ returned' = Undefined
            /\ UNCHANGED <<sceneMap, requiresSave>>
       ELSE LET replacement == newTerrain(sceneMap)
                sm == sceneMapSet(sceneMap, pixelValueOf(sceneMap, terrain), replacement)
            IN /\ sceneMap' = addTerrainToScene(sm, replacement)
               /\ requiresSave' = TRUE
               /\ returned' = [newTerrain |-> replacement]
  /\ lastOp' = Op("removeTerrainFromScene", -1)
  /\ UNCHANGED <<initialized, shapeQueueArray, graphicsLayers, terrainTextures,
                 pixelCacheArray, pixelCache, pixelCacheDirty, temporaryGraphics,
                 storedData, lock, saves, tearDown>>
  /\ trackEnqueued
  /\ UNCHANGED <<regionVars, initializing>>

(* #removeTerrainFromSceneMap(terrain): the statements after sceneMap.delete
   run only if the release went through. *)
removeTerrainFromSceneMap(terrain) ==
  /\ IF notRemovable(sceneMap, terrain)
       THEN /\ returned' = Undefined
            /\ UNCHANGED <<sceneMap, requiresSave>>
       ELSE LET key == pixelValueOf(sceneMap, terrain)
                released == release(sceneMap, shapeQueueArray, key)
            IN /\ sceneMap' = released.sceneMap
               /\ requiresSave' = IF released.throws = "none" THEN TRUE ELSE requiresSave
               /\ returned' = [release |-> key, throws |-> released.throws]
  /\ lastOp' = Op("removeTerrainFromSceneMap", -1)
  /\ UNCHANGED <<initialized, shapeQueueArray, graphicsLayers, terrainTextures,
                 pixelCacheArray, pixelCache, pixelCacheDirty, temporaryGraphics,
                 storedData, lock, saves, tearDown>>
  /\ trackEnqueued
  /\ UNCHANGED <<regionVars, initializing>>

(* _replaceTerrainInScene(newTerrain, pixelValue): sceneMap.get of an unbound
   pixel value is undefined and reading its id throws. *)
replaceTerrainInScene(replacement, pixelValue) ==
  /\ IF pixelValue \notin DOMAIN sceneMap
       THEN /\ returned' = [throws |-> "TypeError"]
            /\ UNCHANGED sceneMap
       ELSE IF terrainId(sceneMap[pixelValue]) = terrainId(replacement)
         THEN /\ returned' = Undefined
              /\ UNCHANGED sceneMap
         ELSE /\ sceneMap' = addTerrainToScene(sceneMapSet(sceneMap, pixelValue, replacement),
                                               replacement)
              /\ returned' = Undefined
  /\ lastOp' = Op("replaceTerrainInScene", -1)
  /\ UNCHANGED <<initialized, requiresSave, shapeQueueArray, graphicsLayers, terrainTextures,
                 pixelCacheArray, pixelCache, pixelCacheDirty, temporaryGraphics,
                 storedData, lock, saves, tearDown>>
  /\ trackEnqueued
  /\ UNCHANGED <<regionVars, initializing>>

(* ----- isPixelValueInScene as a call ----- *)

(* isPixelValueInScene(pixelValue): the value returned for the current queues. *)
isPixelValueInSceneCall(pixelValue) ==
  /\ returned' = [pixelValue |-> pixelValue,
                  value |-> isPixelValueInScene(shapeQueueArray, pixelValue)]
  /\ lastOp' = Op("isPixelValueInScene", -1)
  /\ UNCHANGED <<initialized, requiresSave, sceneMap, shapeQueueArray, graphicsLayers,
                 terrainTextures, pixelCacheArray, pixelCache, pixelCacheDirty,
                 temporaryGraphics, storedData, lock, saves, tearDown>>
  /\ trackEnqueued
  /\ UNCHANGED <<regionVars, initializing>>

(* ----- fill ----- *)

(* SCENE_GRAPH.encompassingPolygonWithHoles(origin) followed by
   TerrainShapeHoled.simplify(): the shapes to paint, none when no closed
   boundary encloses the origin. *)
FillResults == {<<>>, <<{1}>>, <<{1}, {2}>>}

(* ui.notifications.warn(...) of fill *)
NoClosedBoundary == [warn |-> "cannot locate a closed boundary"]

(* for ( const shape of shapes ) this.addTerrainShapeToCanvas(shape, terrain) *)
RECURSIVE addShapes(_, _, _, _, _)
addShapes(st, shapes, terrain, currentLayer, i) ==
  IF i > Len(shapes) THEN st
  ELSE addShapes(addShape(st, shapes[i], terrain, FALSE, currentLayer),
                 shapes, terrain, currentLayer, i + 1)

fillRegisterFirst(polys, terrain, currentLayer) ==
  /\ initialized
  /\ Cardinality(liveIdsOf(paintState)) + Len(polys) <= MaxShapes
  /\ IF polys = <<>>
       THEN /\ returned' = NoClosedBoundary
            /\ sceneMap' = addTerrainToScene(sceneMap, terrain)
            /\ requiresSave' = TRUE
            /\ UNCHANGED <<graphicsLayers, terrainTextures, pixelCacheDirty,
                           temporaryGraphics, shapeQueueArray>>
       ELSE LET st == addShapes(paintState, polys, terrain, currentLayer, 1)
            IN /\ sceneMap' = st.sceneMap
               /\ graphicsLayers' = st.graphicsLayers
               /\ terrainTextures' = st.terrainTextures
               /\ pixelCacheDirty' = st.pixelCacheDirty
               /\ temporaryGraphics' = st.temporaryGraphics
               /\ shapeQueueArray' = st.shapeQueueArray
               /\ requiresSave' = st.requiresSave
               /\ returned' = Undefined
  /\ lastOp' = Op("fill", currentLayer)
  /\ UNCHANGED <<initialized, pixelCacheArray, pixelCache, storedData, lock, saves, tearDown>>
  /\ trackEnqueued
  /\ UNCHANGED <<regionVars, initializing>>

(* fill(origin, terrain) with toolbar.currentLayer = currentLayer, polys being
   what the boundary resolver found for origin. *)
fill(polys, terrain, currentLayer) ==
  /\ initialized
  /\ Cardinality(liveIdsOf(paintState)) + Len(polys) <= MaxShapes
  /\ IF polys = <<>>
       THEN /\ returned' = NoClosedBoundary
            /\ UNCHANGED <<sceneMap, graphicsLayers, terrainTextures, pixelCacheDirty,
                           temporaryGraphics, shapeQueueArray, requiresSave>>
       ELSE LET st == addShapes(paintState, polys, terrain, currentLayer, 1)
            IN /\ sceneMap' = st.sceneMap
               /\ graphicsLayers' = st.graphicsLayers
               /\ terrainTextures' = st.terrainTextures
               /\ pixelCacheDirty' = st.pixelCacheDirty
               /\ temporaryGraphics' = st.temporaryGraphics
               /\ shapeQueueArray' = st.shapeQueueArray
               /\ requiresSave' = st.requiresSave
               /\ returned' = Undefined
  /\ lastOp' = Op("fill", currentLayer)
  /\ UNCHANGED <<initialized, pixelCacheArray, pixelCache, storedData, lock, saves, tearDown>>
  /\ trackEnqueued
  /\ UNCHANGED <<regionVars, initializing>>

(* ----- Wall Graph & Boundary Resolver ----- *)

(* Walls are axis-aligned segments {a, b} between vertices <<x, y>>, y growing
   downwards; only closed walls are edges of the graph. *)
Rectangle ==
  { {<<0, 0>>, <<0, 4>>},    \* west
    {<<0, 0>>, <<4, 0>>},    \* north
    {<<4, 0>>, <<4, 4>>},    \* east
    {<<0, 4>>, <<4, 4>>} }   \* south

(* A free-standing wall inside the rectangle. *)
InnerWall == {<<2, 1>>, <<2, 3>>}

(* Step 1: the walls crossed by the ray cast west from pt. *)
rayCrossings(walls, pt) ==
  LET wallXs(wall) == {v[1] : v \in wall}
      wallYs(wall) == {v[2] : v \in wall}
  IN
  {w \in walls : /\ Cardinality(wallXs(w)) = 1
                 /\ maxOf(wallXs(w)) < pt[1]
                 /\ minOf(wallYs(w)) <= pt[2]
                 /\ pt[2] < maxOf(wallYs(w))}

(* The crossing nearest to pt. *)
nearestCrossing(crossings, pt) ==
  LET wallXs(wall) == {v[1] : v \in wall}
  IN
  CHOOSE w \in crossings : \A u \in crossings : maxOf(wallXs(u)) <= maxOf(wallXs(w))

otherEnd(wall, v) == CHOOSE u \in wall : u # v

(* Step 2: at vertex v, reached from u, the next vertex: the first wall in
   clockwise order from the incoming one; v itself at a dead end. *)
nextVertex(walls, u, v) ==
  LET sign(n) == IF n > 0 THEN 1 ELSE IF n < 0 THEN -1 ELSE 0
      heading(a, b) == <<sign(b[1] - a[1]), sign(b[2] - a[2])>>
      clockwise(d) == <<-d[2], d[1]>>
      counterClockwise(d) == <<d[2], -d[1]>>
      out == {otherEnd(w, v) : w \in {x \in walls : v \in x /\ x # {u, v}}}
      h == heading(u, v)
      turn(d) == {t \in out : heading(v, t) = d}
  IN IF turn(clockwise(h)) # {} THEN CHOOSE t \in turn(clockwise(h)) : TRUE
     ELSE IF turn(h) # {} THEN CHOOSE t \in turn(h) : TRUE
     ELSE IF turn(counterClockwise(h)) # {} THEN CHOOSE t \in turn(counterClockwise(h)) : TRUE
     ELSE v

RECURSIVE walkIgnoringDeadEnds(_, _, _, _, _)
walkIgnoringDeadEnds(walls, first, u, v, path) ==
  IF path # <<>> /\ <<u, v>> = first THEN path
  ELSE IF Len(path) > 2 * Cardinality(walls) THEN <<>>
  ELSE LET t == nextVertex(walls, u, v)
       IN IF t = v THEN Append(path, v)
          ELSE walkIgnoringDeadEnds(walls, first, v, t, Append(path, v))

(* Steps 2-3: the walk that starts with u -> v; the vertices of the closed walk
   when it comes back to its first step, <<>> when it dead-ends. *)
RECURSIVE walk(_, _, _, _, _)
walk(walls, first, u, v, path) ==
  IF path # <<>> /\ <<u, v>> = first THEN path
  ELSE IF Len(path) > 2 * Cardinality(walls) THEN <<>>
  ELSE LET t == nextVertex(walls, u, v)
       IN IF t = v THEN <<>>
          ELSE walk(walls, first, v, t, Append(path, v))

(* The closed walk through a wall, followed clockwise (northwards on a wall
   west of the point). *)
closedWalk(walls, wall) ==
  LET u == CHOOSE a \in wall : \A b \in wall : a[1] + a[2] >= b[1] + b[2]
      v == otherEnd(wall, u)
  IN walk(walls, <<u, v>>, u, v, <<>>)

(* Containment in a polygon of the graph, all of which are axis-aligned boxes. *)
contains(polygon, pt) ==
  LET xs == {polygon[i][1] : i \in DOMAIN polygon}
      ys == {polygon[i][2] : i \in DOMAIN polygon}
  IN /\ minOf(xs) < pt[1] /\ pt[1] < maxOf(xs)
     /\ minOf(ys) < pt[2] /\ pt[2] < maxOf(ys)

polygonWalls(polygon) ==
  {{polygon[i], polygon[(i % Len(polygon)) + 1]} : i \in DOMAIN polygon}

(* Steps 1-4: the outer boundary around pt; <<>> when every candidate wall
   has been discarded. *)
RECURSIVE outerBoundary(_, _, _)
outerBoundary(walls, candidates, pt) ==
  LET crossings == rayCrossings(candidates, pt)
  IN IF crossings = {} THEN <<>>
     ELSE LET wall == nearestCrossing(crossings, pt)
              polygon == closedWalk(walls, wall)
          IN IF polygon # <<>> /\ contains(polygon, pt) THEN polygon
             ELSE outerBoundary(walls, candidates \ {wall}, pt)

(* Step 5: the closed walks among the walls that lie inside the boundary. *)
holesOf(walls, polygon) ==
  LET inside == {w \in walls \ polygonWalls(polygon) : \A v \in w : contains(polygon, v)}
      walks == {closedWalk(inside, w) : w \in inside} \ {<<>>}
  IN {polygonWalls(h) : h \in walks}

NotFound == [error |-> "NoEnclosingBoundary"]

(* encompassingPolygon(point): the outer polygon and its holes, or NotFound. *)
encompassingPolygon(walls, pt) ==
  LET polygon == outerBoundary(walls, walls, pt)
  IN IF polygon = <<>> THEN NotFound
     ELSE [outer |-> polygon, holes |-> holesOf(walls, polygon)]

(* SCENE_GRAPH.encompassingPolygonWithHoles(origin) and shape.simplify(): the
   raster points of the one shape found, no shape when there is no boundary;
   pointAt gives the scene coordinates of the raster points. *)
fillShapes(walls, origin) ==
  LET pointAt == (1 :> <<1, 2>>) @@ (2 :> <<3, 2>>)
      found == encompassingPolygon(walls, origin)
  IN IF found = NotFound THEN <<>>
     ELSE <<{p \in Points : contains(found.outer, pointAt[p])}>>

(* The resolver called on the walls of the scene. *)
encompassingPolygonCall(walls, origin) ==
  /\ returned' = [walls |-> walls, origin |-> origin,
                  value |-> encompassingPolygon(walls, origin)]
  /\ lastOp' = Op("encompassingPolygon", -1)
  /\ UNCHANGED <<initialized, requiresSave, sceneMap, shapeQueueArray, graphicsLayers,
                 terrainTextures, pixelCacheArray, pixelCache, pixelCacheDirty,
                 temporaryGraphics, storedData, lock, saves, tearDown>>
  /\ trackEnqueued
  /\ UNCHANGED <<regionVars, initializing>>

(* fill(origin, terrain) on a scene with the given walls. *)
fillAt(walls, origin, terrain, currentLayer) ==
  fill(fillShapes(walls, origin), terrain, currentLayer)

(* ----- stairs region behavior ----- *)

(* A RegionWaypoint on the line the token moves along. *)
waypoint(x) == [x |-> x]

(* A movement segment {type, from, to}. *)
segment(type, from, to) == [type |-> type, from |-> waypoint(from), to |-> waypoint(to)]

(* The region lies between x = 2 and x = 3. The movements a token makes from outside
   or inside it: into it from either side, through it, within it, out of it on
   either side, out and back in, and through it and back in. *)
Movements ==
  { [segments |-> <<segment("ENTER", 1, 2), segment("MOVE", 2, 3)>>, destination |-> waypoint(3)],
    [segments |-> <<segment("ENTER", 1, 2), segment("MOVE", 2, 3), segment("EXIT", 3, 4)>>,
     destination |-> waypoint(5)],
    [segments |-> <<segment("MOVE", 2, 3)>>, destination |-> waypoint(3)],
    [segments |-> <<segment("MOVE", 2, 3), segment("EXIT", 3, 4)>>, destination |-> waypoint(5)],
    [segments |-> <<segment("EXIT", 2, 1), segment("ENTER", 1, 2), segment("MOVE", 2, 3)>>,
     destination |-> waypoint(3)],
    [segments |-> <<segment("ENTER", 4, 3), segment("MOVE", 3, 2), segment("EXIT", 2, 1),
                    segment("ENTER", 1, 2)>>,
     destination |-> waypoint(2)],
    [segments |-> <<segment("ENTER", 4, 3), segment("MOVE", 3, 2), segment("EXIT", 2, 1)>>,
     destination |-> waypoint(0)],
    [segments |-> <<segment("ENTER", 4, 3), segment("MOVE", 3, 2)>>, destination |-> waypoint(2)],
    [segments |-> <<segment("MOVE", 3, 2), segment("EXIT", 2, 1)>>, destination |-> waypoint(0)],
    [segments |-> <<segment("ENTER", 1, 2), segment("MOVE", 2, 3), segment("EXIT", 3, 4)>>,
     destination |-> waypoint(4)],
    [segments |-> <<segment("MOVE", 2, 3), segment("EXIT", 3, 4)>>, destination |-> waypoint(4)],
    [segments |-> <<segment("MOVE", 3, 2)>>, destination |-> waypoint(2)] }

(* The TOKEN_PRE_MOVE events delivered to the behavior. *)
PreMoveEvents ==
  { [data |-> [forced |-> f, segments |-> m.segments, destination |-> m.destination]] :
      f \in BOOLEAN, m \in Movements }

(* The stairs behaviors of the scene, by the fields of their schema. *)
Behaviors ==
  [algorithm : {"ONE_WAY", "STAIRS"}, elevation : {10}, floor : {0, 4},
   strict : BOOLEAN, dialog : BOOLEAN, resetOnExit : BOOLEAN]

(* for ( const segment of segments ) if ( segment.type === type ) { ...; break; }:
   the index of the segment the loop stops at, 0 when it runs to the end. *)
firstOfType(segments, type) ==
  LET hits == {i \in DOMAIN segments : segments[i].type = type}
  IN IF hits = {} THEN 0 ELSE CHOOSE i \in hits : \A j \in hits : i <= j

(* One loop of #onTokenPreMove over st = [data, lastDestination]. *)
stopAtFirst(st, type) ==
  LET i == firstOfType(st.data.segments, type)
  IN IF i = 0 THEN st
     ELSE [data |-> [st.data EXCEPT !.destination = st.data.segments[i].to],
           lastDestination |-> st.data.destination]

(* The body of #onTokenPreMove. *)
preMove(this, data, last) ==
  LET st == [data |-> data, lastDestination |-> last]
  IN IF data.forced THEN st
     ELSE LET entered == stopAtFirst(st, "ENTER")
          IN IF this.resetOnExit THEN stopAtFirst(entered, "EXIT") ELSE entered

(* static async #onTokenPreMove(event), with this the behavior *)
onTokenPreMove(this, event) ==
  LET st == preMove(this, event.data, lastDestination)
  IN /\ eventData' = st.data
     /\ lastDestination' = st.lastDestination
     /\ requestedDestination' = event.data.destination
     /\ dispatched' = [this |-> this, event |-> event]
     /\ lastOp' = Op("onTokenPreMove", -1)
     /\ UNCHANGED <<layerVars, asyncVars, initializing>>
     /\ trackEnqueued

(* ElevationHandler.sceneFloor: the ground elevation of the scene. *)
sceneFloor == 0

(* The TOKEN_MOVE_IN and TOKEN_MOVE_OUT events; game.user is "local" and the
   positions of the token documents are grid centers. *)
MoveEvents ==
  [user : {"local", "other"}, data : [token : [x : {2}, elevation : {0, 4, 7, 10}]]]

(* continueTokenAnimationForBehavior(behavior, tokenD, elevation): the token document
   after its updates and the static lastDestination. From a grid center
   findNextGridCenter returns that center, so the snapping update leaves x alone. *)
continueTokenAnimationForBehavior(tokenD, last, elevation) ==
  [token |-> IF elevation # Undefined THEN [tokenD EXCEPT !.elevation = elevation.num]
             ELSE IF last # Undefined THEN [tokenD EXCEPT !.x = last.x]
             ELSE tokenD,
   lastDestination |-> Undefined]

targetElevationBelowMidPoint(this, tokenD) ==
  IF this.algorithm = "ONE_WAY" THEN this.elevation
  ELSE LET midPoint == this.floor + ((this.elevation - this.floor) \div 2)
       IN IF tokenD.elevation < midPoint THEN this.elevation ELSE this.floor

(* targetElevation of #onTokenMoveIn; floor and elevation are an even distance apart. *)
targetElevation(this, tokenD) ==
  IF this.algorithm = "ONE_WAY" THEN this.elevation
  ELSE LET midPoint == this.floor + ((this.elevation - this.floor) \div 2)
       IN IF tokenD.elevation <= midPoint THEN this.elevation ELSE this.floor

(* takeStairs of #onTokenMoveIn as it reaches continueTokenAnimationForBehavior;
   confirm is the answer of DialogV2.confirm. *)
takeStairs(this, tokenD, confirm) ==
  LET strictly == \/ ~this.strict
                  \/ tokenD.elevation = this.elevation
                  \/ tokenD.elevation = this.floor
      differs == strictly /\ targetElevation(this, tokenD) # tokenD.elevation
  IN IF this.dialog /\ differs THEN confirm ELSE differs

(* resetToGround of #onTokenMoveOut as it reaches continueTokenAnimationForBehavior. *)
resetToGround(this, tokenD, confirm) ==
  LET reset == /\ this.resetOnExit
               /\ tokenD.elevation # sceneFloor
               /\ (~this.strict \/ (tokenD.elevation = this.elevation
                                     \/ tokenD.elevation = this.floor))
  IN IF this.dialog /\ reset THEN confirm ELSE reset

(* A move-in or move-out handler from its user check on, given the elevation it
   hands to continueTokenAnimationForBehavior. *)
handleMove(name, this, event, confirm, elevation) ==
  LET st == IF event.user # "local"
            THEN [token |-> event.data.token, lastDestination |-> lastDestination]
            ELSE continueTokenAnimationForBehavior(event.data.token, lastDestination, elevation)
  IN /\ eventData' = [token |-> st.token]
     /\ lastDestination' = st.lastDestination
     /\ dispatched' = [this |-> this, event |-> event, confirm |-> confirm]
     /\ lastOp' = Op(name, -1)
     /\ UNCHANGED <<layerVars, asyncVars, requestedDestination, initializing>>
     /\ trackEnqueued

(* static async #onTokenMoveIn(event) *)
onTokenMoveIn(this, event, confirm) ==
  handleMove("onTokenMoveIn", this, event, confirm,
             IF takeStairs(this, event.data.token, confirm)
             THEN Num(targetElevation(this, event.data.token)) ELSE Undefined)

(* static async #onTokenMoveOut(event) *)
onTokenMoveOut(this, event, confirm) ==
  handleMove("onTokenMoveOut", this, event, confirm,
             IF resetToGround(this, event.data.token, confirm)
             THEN Num(sceneFloor) ELSE Undefined)

(* ----- initialize(), step by step ----- *)

(* initialize() called as call c, up to `await this._fileManager.initialize()`:
   it returns at once when #initialized is set. *)
initializeCall(c) ==
  /\ initializing[c] = "idle"
  /\ initializing' = [initializing EXCEPT ![c] = IF initialized THEN "returned" ELSE "fileManager"]
  /\ lastOp' = Op("initializeCall", -1)
  /\ UNCHANGED <<layerVars, asyncVars, regionVars>>
  /\ trackEnqueued

(* Call c resumes after the file manager: the render textures are created anew
   and loadSceneData() waits for _fileManager.loadData(). *)
initializeTextures(c) ==
  /\ initializing[c] = "fileManager"
  /\ initializing' = [initializing EXCEPT ![c] = "loadData"]
  /\ terrainTextures' = [t \in Textures |-> BlankTexture]
  /\ lastOp' = Op("initializeTextures", -1)
  /\ UNCHANGED <<initialized, requiresSave, sceneMap, shapeQueueArray, graphicsLayers,
                 pixelCacheArray, pixelCache, pixelCacheDirty, temporaryGraphics, storedData>>
  /\ UNCHANGED <<asyncVars, regionVars>>
  /\ trackEnqueued

(* Call c resumes after loadData() found no stored data: key 0 is bound,
   #initializePixelCache, _clearPixelCacheArray(), renderTerrain() and
   #initialized = true follow. *)
initializeLoaded(c) ==
  /\ initializing[c] = "loadData"
  /\ storedData = NoData
  /\ initializing' = [initializing EXCEPT ![c] = "done"]
  /\ sceneMap' = IF 0 \in DOMAIN sceneMap THEN sceneMap ELSE sceneMapSet(sceneMap, 0, nullTerrain)
  /\ LET arr == [t \in Textures |-> updateFromTexture(terrainTextures[t])]
         dirty1 == clearPixelCacheArray(pixelCacheDirty, -1)
     IN /\ pixelCacheArray' = arr
        /\ pixelCache' = updateFromTerrainLayerCaches(arr[0], arr[1])
        /\ terrainTextures' = renderTerrainTextures(terrainTextures, graphicsLayers, -1)
        /\ pixelCacheDirty' = clearPixelCacheArray(dirty1, -1)
  /\ initialized' = TRUE
  /\ lastOp' = Op("initializeLoaded", -1)
  /\ UNCHANGED <<requiresSave, shapeQueueArray, graphicsLayers, temporaryGraphics, storedData>>
  /\ UNCHANGED <<asyncVars, regionVars>>
  /\ trackEnqueued

(* ----- specifications ----- *)

(* The raster core: painting, undo, clearing and point queries. *)
Next ==
  \/ initialize
  \/ \E p \in Points : terrainLayersAt(p)
  \/ \E shape \in Shapes, terrain \in Terrains \cup {nullTerrain}, currentLayer \in CurrentLayers :
       addTerrainShapeToCanvas(shape, terrain, FALSE, currentLayer)
  \/ \E currLayer \in CurrentLayers : undo(currLayer)
  \/ clearData

Spec == Init /\ [][Next]_vars

(* Permanent adds and undos only, on three layers. *)
NextPaint ==
  \/ initialize
  \/ \E p \in Points : terrainLayersAt(p)
  \/ \E shape \in PaintShapes, terrain \in Terrains \cup {nullTerrain}, currentLayer \in PaintLayers :
       addTerrainShapeToCanvas(shape, terrain, FALSE, currentLayer)
  \/ \E currLayer \in PaintLayers : undo(currLayer)

SpecPaint == Init /\ [][NextPaint]_vars

(* Painting with the fill-by-grid drag: temporary shapes, commit and cancel. *)
NextTemp ==
  \/ initialize
  \/ \E p \in Points : terrainLayersAt(p)
  \/ \E shape \in PolygonShapes, terrain \in Terrains \cup {nullTerrain}, currentLayer \in TempLayers :
       addTerrainShapeToCanvas(shape, terrain, FALSE, currentLayer)
  \/ \E shape \in GridShapes, terrain \in Terrains \cup {nullTerrain}, currentLayer \in TempLayers :
       addTerrainShapeToCanvas(shape, terrain, TRUE, currentLayer)
  \/ \E currLayer \in TempLayers : undo(currLayer)
  \/ makeTemporaryGraphicsPermanent
  \/ clearTemporaryGraphics

SpecTemp == Init /\ [][NextTemp]_vars

(* Saving around deactivation and teardown: one layer, one cell. *)
SaveShapes == {{1}}
SaveLayers == {0}

NextSave ==
  \/ initialize
  \/ \E shape \in SaveShapes, terrain \in Terrains, currentLayer \in SaveLayers :
       addTerrainShapeToCanvas(shape, terrain, FALSE, currentLayer)
  \/ \E shape \in SaveShapes, terrain \in Terrains, currentLayer \in SaveLayers :
       addTerrainShapeToCanvas(shape, terrain, TRUE, currentLayer)
  \/ \E currLayer \in SaveLayers : undo(currLayer)
  \/ clearData
  \/ deactivate
  \/ tearDownCall
  \/ \E s \in Savers : saveSettled(s)

SpecSave == Init /\ [][NextSave]_vars

(* The same, with every pending write of the file manager settling at last. *)
SpecSaveFair == SpecSave /\ \A s \in Savers : WF_vars(saveSettled(s))

(* The query facade over a scene painted with two terrains on two layers. *)
QueryShapes == {{1}}
QueryTerrains == {<<"terrain", 1>>, <<"terrain", 2>>}

NextQuery ==
  \/ initialize
  \/ \E shape \in QueryShapes, terrain \in QueryTerrains, currentLayer \in CurrentLayers :
       addTerrainShapeToCanvas(shape, terrain, FALSE, currentLayer)
  \/ \E currLayer \in CurrentLayers : undo(currLayer)
  \/ \E p \in Points : terrainLevelsAt(p)
  \/ \E p \in Points : terrainsAt(p)
  \/ \E p \in Points, elevation \in {1, 11} : activeTerrainLevelsAt(p, elevation)

SpecQuery == Init /\ [][NextQuery]_vars

(* The scene map under painting on one layer, terrain removal and replacement. *)
TerrainLayers == {4}
ReplacementTerrains == {<<"terrain", 2>>}

NextTerrain ==
  \/ initialize
  \/ \E shape \in QueryShapes, terrain \in Terrains, currentLayer \in TerrainLayers :
       addTerrainShapeToCanvas(shape, terrain, FALSE, currentLayer)
  \/ \E currLayer \in TerrainLayers : undo(currLayer)
  \/ \E terrain \in Terrains \cup ReplacementTerrains \cup NewTerrains \cup {nullTerrain} :
       removeTerrainFromScene(terrain)
  \/ \E terrain \in Terrains \cup ReplacementTerrains \cup NewTerrains \cup {nullTerrain} :
       removeTerrainFromSceneMap(terrain)
  \/ \E replacement \in ReplacementTerrains, pixelValue \in 0 .. 1 :
       replaceTerrainInScene(replacement, pixelValue)

SpecTerrain == Init /\ [][NextTerrain]_vars

(* A scene that is painted, saved, and has the saved snapshot imported again. *)
NextRoundTrip ==
  \/ initialize
  \/ \E shape \in QueryShapes, terrain \in Terrains, currentLayer \in CurrentLayers :
       addTerrainShapeToCanvas(shape, terrain, FALSE, currentLayer)
  \/ \E currLayer \in CurrentLayers : undo(currLayer)
  \/ save
  \/ importFromJSON(storedData)
  \/ \E p \in Points : terrainLevelsAt(p)

SpecRoundTrip == Init /\ [][NextRoundTrip]_vars

(* Compaction: the scene after a run of permanent adds on one layer that
   fills the undo window, then saves and point queries. *)
initializedState ==
  [sceneMap |-> sceneMapSet([k \in {} |-> nullTerrain], 0, nullTerrain),
   shapeQueueArray |-> EmptyQueues,
   graphicsLayers |-> EmptyQueues,
   terrainTextures |-> [t \in Textures |-> BlankTexture],
   pixelCacheDirty |-> [t \in Textures |-> 1],
   temporaryGraphics |-> <<>>,
   requiresSave |-> FALSE]

RECURSIVE addAll(_, _, _)
addAll(st, items, layer) ==
  IF items = <<>> THEN st
  ELSE addAll(addShape(st, Head(items).shape, Head(items).terrain, FALSE, layer),
              Tail(items), layer)

PaintItems == [shape : Shapes, terrain : Terrains \cup {nullTerrain}]

(* The scene after the adds older \o n times recent on one layer. *)
cleanScene(layer, recent, n, older) ==
  LET st == addAll(initializedState, older \o [i \in 1 .. n |-> recent], layer)
  IN /\ initialized = TRUE
     /\ requiresSave = st.requiresSave
     /\ sceneMap = st.sceneMap
     /\ shapeQueueArray = st.shapeQueueArray
     /\ graphicsLayers = st.graphicsLayers
     /\ terrainTextures = st.terrainTextures
     /\ pixelCacheArray = [t \in Textures |-> BlankTexture]
     /\ pixelCache = updateFromTerrainLayerCaches(BlankTexture, BlankTexture)
     /\ pixelCacheDirty = st.pixelCacheDirty
     /\ temporaryGraphics = st.temporaryGraphics
     /\ storedData = NoData
     /\ lock = <<>>
     /\ saves = [s \in Savers |-> IdleSave]
     /\ tearDown = "idle"
     /\ returned = Undefined
     /\ lastOp = Op("add", layer)
     /\ everEnqueued = queuedCover(st.shapeQueueArray)
     /\ dispatched = Undefined
     /\ initializing = [c \in InitCalls |-> "idle"]
     /\ lastDestination = Undefined
     /\ eventData = Undefined
     /\ requestedDestination = Undefined

InitClean ==
  \E layer \in CurrentLayers, recent \in PaintItems,
     n \in (NUM_UNDO - 1) .. NUM_UNDO,
     older \in UNION {[1 .. k -> PaintItems] : k \in 0 .. MaxOlder} :
    cleanScene(layer, recent, n, older)

NextClean ==
  \/ save
  \/ \E p \in Points : terrainLayersAt(p)

SpecClean == InitClean /\ [][NextClean]_vars

(* Painting with a terrain and with the null terrain, undo, save, and the
   scene-membership query of a pixel value. *)
NextInScene ==
  \/ initialize
  \/ \E shape \in QueryShapes, terrain \in Terrains \cup {nullTerrain}, currentLayer \in CurrentLayers :
       addTerrainShapeToCanvas(shape, terrain, FALSE, currentLayer)
  \/ \E currLayer \in CurrentLayers : undo(currLayer)
  \/ save
  \/ \E pixelValue \in {0, 1, 2, MAX_TERRAIN_ID} : isPixelValueInSceneCall(pixelValue)

SpecInScene == Init /\ [][NextInScene]_vars

(* Filling from an origin, with and without a closed boundary around it. *)
NextFill ==
  \/ initialize
  \/ \E polys \in FillResults, terrain \in Terrains, currentLayer \in CurrentLayers :
       fill(polys, terrain, currentLayer)
  \/ \E currLayer \in CurrentLayers : undo(currLayer)
  \/ \E p \in Points : terrainLayersAt(p)

SpecFill == Init /\ [][NextFill]_vars

(* A data file exported from a scene: one grid shape of terrain id on one layer,
   the terrain bound to pixel value 1. *)
UploadFiles ==
  LET exportedFile(shape, layer, id) ==
        saveData(sceneMapSet(sceneMapSet([k \in {} |-> nullTerrain], 0, nullTerrain),
                             1, fromEffectId(id)),
                 [l \in Layers |-> IF l = layer THEN <<newGraphics(1, shape, layer, 1)>>
                                                ELSE <<>>])
  IN {exportedFile({1}, 0, 1), exportedFile({2}, 4, 2)}

(* A painted scene into which data files are uploaded. *)
NextUpload ==
  \/ initialize
  \/ \E shape \in QueryShapes, terrain \in Terrains, currentLayer \in CurrentLayers :
       addTerrainShapeToCanvas(shape, terrain, FALSE, currentLayer)
  \/ \E currLayer \in CurrentLayers : undo(currLayer)
  \/ \E p \in Points : terrainLayersAt(p)
  \/ \E data \in UploadFiles : importFromJSON(data)

SpecUpload == Init /\ [][NextUpload]_vars

(* Fills inside a rectangle of walls, whole or with one wall missing, with and
   without a free-standing wall between the origin and the west wall. *)
WallSets ==
  {Rectangle \ gap : gap \in {{}} \cup {{w} : w \in Rectangle}}
    \cup {(Rectangle \ gap) \cup {InnerWall} : gap \in {{}} \cup {{w} : w \in Rectangle}}
Origins == {<<1, 2>>, <<3, 2>>, <<3, 1>>}

NextBoundary ==
  \/ initialize
  \/ \E walls \in WallSets, origin \in Origins : encompassingPolygonCall(walls, origin)
  \/ \E walls \in WallSets, origin \in Origins, terrain \in Terrains, currentLayer \in CurrentLayers :
       fillAt(walls, origin, terrain, currentLayer)
  \/ \E currLayer \in CurrentLayers : undo(currLayer)

SpecBoundary == Init /\ [][NextBoundary]_vars

(* Dragging over grid cells on two layers: temporary shapes, made permanent at
   the end of the drag, next to polygons painted directly. *)
NextDrag ==
  \/ initialize
  \/ \E shape \in PolygonShapes, terrain \in Terrains, currentLayer \in CurrentLayers :
       addTerrainShapeToCanvas(shape, terrain, FALSE, currentLayer)
  \/ \E shape \in GridShapes, terrain \in Terrains \cup {nullTerrain}, currentLayer \in CurrentLayers :
       addTerrainShapeToCanvas(shape, terrain, TRUE, currentLayer)
  \/ \E currLayer \in CurrentLayers : undo(currLayer)
  \/ makeTemporaryGraphicsPermanent

SpecDrag == Init /\ [][NextDrag]_vars

(* Saves, step by step, of a scene whose queue of layer 0 fills the undo
   window, with undos arriving while a write is pending; the undos stop
   MaxUndos below the window. *)
MaxUndos == 2

InitCleanSave ==
  \E recent \in PaintItems, older \in UNION {[1 .. k -> PaintItems] : k \in 0 .. MaxOlder} :
    cleanScene(0, recent, NUM_UNDO, older)

NextCleanSave ==
  \/ deactivate
  \/ tearDownCall
  \/ \E s \in Savers : saveSettled(s)
  \/ \E currLayer \in SaveLayers :
       /\ Len(shapeQueueArray[currLayer]) > NUM_UNDO - MaxUndos
       /\ undo(currLayer)

SpecCleanSave == InitCleanSave /\ [][NextCleanSave]_vars

(* The region events of a scene whose stairs are strict one-way stairs without
   a dialog, with and without reset on exit. *)
StrictBehaviors ==
  {b \in Behaviors : b.algorithm = "ONE_WAY" /\ b.floor = 0 /\ b.strict /\ ~b.dialog}

NextStairs ==
  \/ \E this \in StrictBehaviors, event \in PreMoveEvents : onTokenPreMove(this, event)
  \/ \E this \in StrictBehaviors, event \in MoveEvents, confirm \in BOOLEAN :
       onTokenMoveIn(this, event, confirm)
  \/ \E this \in StrictBehaviors, event \in MoveEvents, confirm \in BOOLEAN :
       onTokenMoveOut(this, event, confirm)

SpecStairs == Init /\ [][NextStairs]_vars

(* The move-in and move-out events of a scene with stairs of every kind. *)
NextMove ==
  \/ \E this \in Behaviors, event \in MoveEvents, confirm \in BOOLEAN :
       onTokenMoveIn(this, event, confirm)
  \/ \E this \in Behaviors, event \in MoveEvents, confirm \in BOOLEAN :
       onTokenMoveOut(this, event, confirm)

SpecMove == Init /\ [][NextMove]_vars

(* A scene load whose canvasReady hook fires for each call, with painting and
   point queries once the layer is initialized. *)
NextInit ==
  \/ \E c \in InitCalls : initializeCall(c)
  \/ \E c \in InitCalls : initializeTextures(c)
  \/ \E c \in InitCalls : initializeLoaded(c)
  \/ \E shape \in SaveShapes, terrain \in Terrains, currentLayer \in TerrainLayers :
       addTerrainShapeToCanvas(shape, terrain, FALSE, currentLayer)
  \/ \E p \in Points : terrainLayersAt(p)

SpecInit == Init /\ [][NextInit]_vars

(* ----- properties ----- *)

AllDirty == \A t \in Textures : pixelCacheDirty[t] # 0
NoneDirty == \A t \in Textures : pixelCacheDirty[t] = 0

(* The pixel value of the latest element of a queue whose shape covers p; 0 when none does. *)
latestCover(queue, p) ==
  LET idx == {i \in DOMAIN queue : p \in queue[i].shape}
  IN IF idx = {} THEN 0
     ELSE queue[CHOOSE i \in idx : \A j \in idx : j <= i].pixelValue

(* The undo window of a queue: its last NUM_UNDO elements. *)
undoWindow(queue) == SubSeq(queue, Len(queue) - NUM_UNDO + 1, Len(queue))

(* C1: the pixel cache is never read stale: in every state of an initialized
   layer, what _terrainLayersAt(p) returns is what the channel buffers hold. *)
C1_CacheNeverStale ==
  initialized => \A p \in Points : terrainLayersAtPoint(p) = bufferLayersAt(p)

(* C2: channel isolation: a permanent paint on layer L leaves the other
   channel buffer as it was, sets the dirty bit of buffer floor(L/3), and
   leaves the other buffer's dirty bit at its previous value. *)
C2_ChannelIsolation ==
  [][lastOp'.op = "add" =>
       LET own == FloorDiv3(lastOp'.layer)
           other == 1 - own
       IN /\ terrainTextures'[other] = terrainTextures[other]
          /\ pixelCacheDirty'[own] = 1
          /\ pixelCacheDirty'[other] = pixelCacheDirty[other]]_vars

(* C3: marking the cache dirty for all buffers, as clearData does through
   _clearData and a full renderTerrain, leaves every dirty bit set. *)
C3_MarkAllDirty ==
  lastOp.op = "clearData" => AllDirty

(* C4: a read of pixelCache re-derives exactly the buffers whose dirty bit is
   set, leaves the cache of a clean buffer untouched, recomputes the merged
   cache from the per-buffer caches and returns with no dirty bit set; with no
   dirty bit set it rebuilds nothing. *)
C4_RebuildExact ==
  [][lastOp'.op = "terrainLayersAt" =>
       /\ \A t \in Textures : pixelCacheDirty'[t] = 0
       /\ \A t \in Textures :
            IF pixelCacheDirty[t] # 0
              THEN pixelCacheArray'[t] = updateFromTexture(terrainTextures[t])
              ELSE pixelCacheArray'[t] = pixelCacheArray[t]
       /\ IF pixelCacheDirtyAny(pixelCacheDirty)
            THEN pixelCache' =
                   updateFromTerrainLayerCaches(pixelCacheArray'[0], pixelCacheArray'[1])
            ELSE pixelCache' = pixelCache /\ pixelCacheArray' = pixelCacheArray
       /\ terrainTextures' = terrainTextures]_vars

(* C4 witness: a read has rebuilt the cache and it holds painted terrain. *)
C4_Witness ==
  /\ lastOp.op = "terrainLayersAt"
  /\ NoneDirty
  /\ \E p \in Points, l \in Layers : pixelCache[p][l] # 0 /\ bufferLayersAt(p)[l] # 0

(* C5: paint order is queue order: after permanent adds and undos, the value
   read at p on layer L is the pixel value of the latest element of layer L's
   queue that covers p, and 0 when none covers it. *)
C5_PaintOrder ==
  initialized =>
    \A p \in Points, l \in Layers :
      terrainLayersAtPoint(p)[l] = latestCover(shapeQueueArray[l], p)

(* C5 witness: a later "no terrain" shape lies over an earlier terrain shape
   on the same layer and a point is covered by both. *)
C5_Witness ==
  \E l \in Layers, p \in Points :
    /\ Len(shapeQueueArray[l]) = 2
    /\ p \in shapeQueueArray[l][1].shape /\ p \in shapeQueueArray[l][2].shape
    /\ shapeQueueArray[l][1].pixelValue # 0
    /\ shapeQueueArray[l][2].pixelValue = 0
    /\ \E q \in Points : q \notin shapeQueueArray[l][2].shape /\ terrainLayersAtPoint(q)[l] # 0

(* C6: once a drag has been cancelled, a point and layer that no enqueued
   shape ever covered read as 0. *)
C6_NeverEnqueuedIsZero ==
  (initialized /\ lastOp.op = "clearTemporaryGraphics") =>
    \A p \in Points, l \in Layers :
      <<p, l>> \notin everEnqueued => terrainLayersAtPoint(p)[l] = 0

(* C7: the compaction run by save keeps the undo window: a queue of fewer than
   NUM_UNDO elements is unchanged, and a longer one still ends with its last
   NUM_UNDO elements, in their order. *)
C7_UndoWindowKept ==
  [][lastOp'.op = "save" =>
       \A l \in Layers :
         IF Len(shapeQueueArray[l]) < NUM_UNDO
           THEN shapeQueueArray'[l] = shapeQueueArray[l]
           ELSE /\ Len(shapeQueueArray'[l]) >= NUM_UNDO
                /\ undoWindow(shapeQueueArray'[l]) = undoWindow(shapeQueueArray[l])]_vars

(* C7 witness: a save has run on a queue that still fills the undo window
   and whose oldest element was compacted away. *)
C7_Witness ==
  /\ lastOp.op = "save"
  /\ \E l \in Layers :
       /\ Len(shapeQueueArray[l]) = NUM_UNDO
       /\ shapeQueueArray[l][1].id # 1

(* C8: compaction never changes observable terrain: after save, the value
   read at every point and layer is the one computed from the queues as they
   were before the compaction, and the one read before it. *)
C8_CompactionInvisible ==
  [][lastOp'.op = "save" =>
       \A p \in Points, l \in Layers :
         /\ terrainLayersAtPoint(p)'[l] = latestCover(shapeQueueArray[l], p)
         /\ terrainLayersAtPoint(p)'[l] = terrainLayersAtPoint(p)[l]]_vars

(* C8 witness: a save has removed the oldest element of a queue and kept an
   older element that is not covered. *)
C8_Witness ==
  /\ lastOp.op = "save"
  /\ \E l \in Layers :
       /\ Len(shapeQueueArray[l]) = NUM_UNDO + 1
       /\ shapeQueueArray[l][1].id # 1
       /\ \E p \in Points : terrainLayersAtPoint(p)[l] # 0

(* C9: undo() on an empty queue of the current layer changes nothing. *)
C9_UndoEmptyNoop ==
  [][(lastOp'.op = "undo" /\ shapeQueueArray[lastOp'.layer] = <<>>) =>
       UNCHANGED <<initialized, requiresSave, sceneMap, shapeQueueArray, graphicsLayers,
                   terrainTextures, pixelCacheArray, pixelCache, pixelCacheDirty,
                   temporaryGraphics, storedData>>]_vars

(* C9 witness: undo ran on an empty queue while another layer holds a shape
   and the cache was clean. *)
C9_Witness ==
  /\ lastOp.op = "undo"
  /\ shapeQueueArray[lastOp.layer] = <<>>
  /\ NoneDirty
  /\ \E l \in Layers : shapeQueueArray[l] # <<>>

(* C10: undo() on a non-empty queue removes the most recently appended element
   of the current layer's queue and nothing else, and a permanent add appends
   one element to the current layer's queue and touches no other queue, so k
   undos after k adds on a layer restore its queue. *)
C10_UndoRemovesLast ==
  [][/\ (lastOp'.op = "undo" /\ shapeQueueArray[lastOp'.layer] # <<>>) =>
          LET l == lastOp'.layer
              queue == shapeQueueArray[l]
          IN /\ shapeQueueArray'[l] = SubSeq(queue, 1, Len(queue) - 1)
             /\ \A k \in Layers \ {l} : shapeQueueArray'[k] = shapeQueueArray[k]
     /\ lastOp'.op = "add" =>
          LET l == lastOp'.layer
          IN /\ Len(shapeQueueArray'[l]) = Len(shapeQueueArray[l]) + 1
             /\ SubSeq(shapeQueueArray'[l], 1, Len(shapeQueueArray[l])) = shapeQueueArray[l]
             /\ \A k \in Layers \ {l} : shapeQueueArray'[k] = shapeQueueArray[k]]_vars

(* C10 witness: after two adds on a layer an undo has left the first one. *)
C10_Witness ==
  /\ lastOp.op = "undo"
  /\ AllDirty
  /\ Len(shapeQueueArray[lastOp.layer]) = 1
  /\ shapeQueueArray[lastOp.layer][1].id = 1

InProgress(pc) == pc \in {"acquire", "write"}

(* C11: saves are mutually exclusive: a save() that has compacted the queues
   and is writing its snapshot holds the lock, so no two are in that section
   at once, and the file only ever changes to the snapshot of the holder. *)
C11_SavesExclusive ==
  [][/\ \A s \in Savers : saves'[s].pc = "write" => lockHeldBy(lock', s)
     /\ \A s \in Savers :
          (saves[s].pc # "write" /\ saves'[s].pc = "write") =>
             \A o \in Savers \ {s} : saves'[o].pc # "write"
     /\ storedData' # storedData =>
          \E s \in Savers : /\ lockHeldBy(lock, s)
                            /\ saves[s].pc = "write"
                            /\ storedData' = saves[s].snapshot]_vars

(* C11 witness: the save started by _deactivate is writing while the one
   awaited by _tearDown waits for the lock. *)
C11_Witness ==
  /\ saves["deactivate"].pc = "write"
  /\ saves["tearDown"].pc = "acquire"
  /\ lock = <<"deactivate", "tearDown">>

(* C12: a save in progress is awaited before teardown: when _tearDown clears
   the queues and destroys the buffers, no save() started earlier is still
   waiting for the lock or for its write. *)
C12_TearDownAwaitsSave ==
  [][(initialized /\ ~initialized') =>
       \A s \in Savers : ~InProgress(saves'[s].pc)]_vars

(* C13: a failed save is reported and not retried: a save() calls saveData at
   most once; when that call fails the save() is rejected without the file
   changing, a _tearDown awaiting it is rejected too and clears nothing, and a
   rejected save() takes no further step. *)
C13_FailedSaveNotRetried ==
  [][\A s \in Savers :
       /\ saves'[s].writes <= 1
       /\ saves[s].pc = "failed" => saves'[s] = saves[s]
       /\ (saves[s].pc # "failed" /\ saves'[s].pc = "failed") =>
            /\ saves[s].pc = "write"
            /\ storedData' = storedData
            /\ (s = "tearDown" /\ tearDown = "awaiting") =>
                 (tearDown' = "failed" /\ initialized' = initialized
                    /\ shapeQueueArray' = shapeQueueArray)]_vars

(* C13 witness: the write of the save awaited by _tearDown has failed. *)
C13_Witness ==
  /\ saves["tearDown"].pc = "failed"
  /\ saves["tearDown"].writes = 1
  /\ tearDown = "failed"
  /\ initialized
  /\ storedData = NoData

(* The levels a snapshot describes at p: per layer the pixel value of the
   latest shape of the layer's saved queue covering p, looked up in the
   snapshot's scene map. *)
snapshotLevelsAt(data, p) ==
  layersToTerrainLevels(importSceneMap(data),
                        [l \in Layers |-> latestCover(data.shapeQueueArray[l], p)], 0)

(* C14: round trip: importFromJSON of the snapshot written by #saveData, on a
   layer whose queues and buffers are empty, reproduces every layer's sequence
   of shapes (type, geometry, layer, pixel value) and the map from pixel value
   to terrain id, and terrainLevelsAt then returns at every point the levels
   the snapshot describes. *)
C14_RoundTrip ==
  [][(/\ lastOp'.op = "importFromJSON"
      /\ shapeQueueArray = EmptyQueues
      /\ terrainTextures = [t \in Textures |-> BlankTexture]) =>
       /\ \A l \in Layers : queueToJSON(shapeQueueArray'[l]) = storedData.shapeQueueArray[l]
       /\ saveData(sceneMap', shapeQueueArray').sceneMap = storedData.sceneMap
       /\ \A p \in Points : terrainLevelsAtPoint(p)' = snapshotLevelsAt(storedData, p)]_vars

(* C15: terrainLevelsAt(p) on an initialized layer has exactly one entry per
   layer whose decoded pixel value at p is non-zero, in ascending layer order,
   each with the scene-map terrain of that pixel value. *)
C15_LevelsPerLayer ==
  initialized =>
    \A p \in Points :
      LET levels == terrainLevelsAtPoint(p)
          decoded == terrainLayersAtPoint(p)
      IN /\ Len(levels) = Cardinality({l \in Layers : decoded[l] # 0})
         /\ \A i \in DOMAIN levels :
              /\ decoded[levels[i].level] # 0
              /\ decoded[levels[i].level] \in DOMAIN sceneMap
              /\ levels[i].terrain = sceneMap[decoded[levels[i].level]]
         /\ \A i, j \in DOMAIN levels : i < j => levels[i].level < levels[j].level

(* C16: terrainsAt(p) is the set of the distinct terrains of terrainLevelsAt(p):
   it never contains the null terrain and a terrain present on several layers
   appears once. *)
C16_TerrainsAtIsSet ==
  lastOp.op = "terrainsAt" =>
    LET levels == terrainLevelsAtPoint(returned.at)
    IN /\ \A t \in returned.value : \E i \in DOMAIN levels : levels[i].terrain = t
       /\ \A i \in DOMAIN levels : levels[i].terrain \in returned.value
       /\ nullTerrain \notin returned.value
       /\ Cardinality(returned.value) <= Len(levels)

(* C16 witness: terrainsAt returned one terrain at a point where it lies on
   two layers. *)
C16_Witness ==
  /\ lastOp.op = "terrainsAt"
  /\ Cardinality(returned.value) = 1
  /\ Len(terrainLevelsAtPoint(returned.at)) = 2

(* The anchor elevation of a level by the anchor mode of its terrain. *)
anchorElevationByMode(lvl, p) ==
  IF terrainAnchor(lvl.terrain) = ABSOLUTE THEN 0
  ELSE IF terrainAnchor(lvl.terrain) = RELATIVE_TO_TERRAIN THEN elevationAt(p)
  ELSE layerElevations[lvl.level]

inRangeByMode(lvl, elevation, p) ==
  /\ anchorElevationByMode(lvl, p) + terrainOffsets(lvl.terrain).min <= elevation
  /\ elevation <= anchorElevationByMode(lvl, p) + terrainOffsets(lvl.terrain).max

(* C17: activeTerrainLevelsAt(p, e) returns the entries of terrainLevelsAt(p),
   in order, whose elevation range contains e, the range being the terrain's
   offsets applied to the anchor elevation of its anchor mode. *)
C17_ActiveLevels ==
  lastOp.op = "activeTerrainLevelsAt" =>
    returned.value =
      SelectSeq(terrainLevelsAtPoint(returned.at),
                LAMBDA lvl : inRangeByMode(lvl, returned.elevation, returned.at))


(* C18: key 0 of the scene map is permanently the null terrain: once the layer
   has loaded its scene data, key 0 is bound, and bound to the built-in null
   terrain, whatever loads, imports, terrain additions, removals and
   replacements (for any pixel value, 0 included) follow. *)
C18_KeyZeroIsNullTerrain ==
  initialized => (0 \in DOMAIN sceneMap /\ sceneMap[0] = nullTerrain)

(* C19: no dangling terrain keys: every shape in every queue carries a pixel
   value that is bound to a terrain in the scene map, after any sequence of
   adds, undos, terrain removals and terrain replacements. *)
C19_NoDanglingKeys ==
  \A l \in Layers : \A i \in 1 .. Len(shapeQueueArray[l]) :
    shapeQueueArray[l][i].pixelValue \in DOMAIN sceneMap

(* A queued shape carries a key that a removal has bound to a replacement terrain. *)
C19_Witness ==
  \E l \in Layers : \E i \in 1 .. Len(shapeQueueArray[l]) :
    /\ shapeQueueArray[l][i].pixelValue \in DOMAIN sceneMap
    /\ sceneMap[shapeQueueArray[l][i].pixelValue] \in NewTerrains

usesKey(queues, key) ==
  \E l \in Layers : \E i \in 1 .. Len(queues[l]) : queues[l][i].pixelValue = key

(* C20: releasing a terrain key fails with KeyInUse and changes nothing while
   an enqueued shape uses the key, and succeeds, unbinding the key, when no
   queue contains a shape with it. *)
C20_ReleaseKeyInUse ==
  [][(lastOp'.op = "removeTerrainFromSceneMap" /\ returned' # Undefined) =>
       IF usesKey(shapeQueueArray, returned'.release)
         THEN /\ returned'.throws = "KeyInUse"
              /\ sceneMap' = sceneMap
              /\ requiresSave' = requiresSave
              /\ shapeQueueArray' = shapeQueueArray
         ELSE /\ returned'.throws = "none"
              /\ returned'.release \notin DOMAIN sceneMap'
              /\ shapeQueueArray' = shapeQueueArray]_vars

(* A release was refused because a shape on a layer above the first uses the key. *)
C20_Witness ==
  /\ lastOp.op = "removeTerrainFromSceneMap"
  /\ returned # Undefined
  /\ returned.throws = "KeyInUse"
  /\ usesKey(shapeQueueArray, returned.release)
  /\ ~isPixelValueInSceneFirstLayer(shapeQueueArray, returned.release)
  /\ returned.release \in DOMAIN sceneMap

(* C21: isPixelValueInScene(v) is true exactly when some layer's queue holds a
   shape with pixel value v, for every v of 0..31, the 0 of an enqueued
   "no terrain" shape included. *)
C21_InSceneIffQueued ==
  lastOp.op = "isPixelValueInScene" =>
    (returned.value <=> usesKey(shapeQueueArray, returned.pixelValue))

(* C22: fill is all-or-nothing: when no closed boundary encloses the origin it
   enqueues nothing and leaves the queues, the scene map, the channel buffers,
   the dirty bits and _requiresSave as they were. *)
C22_FillAllOrNothing ==
  [][(lastOp'.op = "fill" /\ returned' = NoClosedBoundary) =>
       /\ shapeQueueArray' = shapeQueueArray
       /\ sceneMap' = sceneMap
       /\ terrainTextures' = terrainTextures
       /\ graphicsLayers' = graphicsLayers
       /\ pixelCacheDirty' = pixelCacheDirty
       /\ requiresSave' = requiresSave]_vars

(* A fill found no boundary on a scene that holds a painted shape and whose
   cache is clean. *)
C22_Witness ==
  /\ lastOp.op = "fill"
  /\ returned = NoClosedBoundary
  /\ \E l \in Layers : shapeQueueArray[l] # <<>>
  /\ NoneDirty

(* C23: a shape added on layer L with pixel value v is drawn into channel
   buffer floor(L/3), channel L mod 3, with value v; the decoded entry of
   layer L at a covered point is v; the other channels of that buffer hold what
   their own layers painted, and the other buffer is not written. *)
C23_LayerToStorage ==
  [][lastOp'.op = "add" =>
       LET L == lastOp'.layer
           g == shapeQueueArray'[L][Len(shapeQueueArray'[L])]
           buffer == FloorDiv3(L)
       IN /\ \A p \in g.shape :
               /\ terrainTextures'[buffer][p][L % MAX_CHANNELS] = g.pixelValue
               /\ terrainLayersAtPoint(p)'[L] = g.pixelValue
          /\ \A p \in Points : \A c \in Channels \ {L % MAX_CHANNELS} :
               terrainTextures'[buffer][p][c]
                 = latestCover(graphicsLayers[MAX_CHANNELS * buffer + c], p)
          /\ \A t \in Textures \ {buffer} : terrainTextures'[t] = terrainTextures[t]]_vars

(* A terrain was just painted on layer 4 (buffer 1, channel 1) of a scene that
   also holds terrain on layer 1 (buffer 0, channel 1). *)
C23_Witness ==
  /\ lastOp = Op("add", 4)
  /\ terrainTextures[1][1][1] = 1
  /\ terrainTextures[0][1][1] = 1
  /\ shapeQueueArray[1] # <<>>

(* C24: uploading a data file marks the scene as requiring a save: once
   importFromJSON has run, _requiresSave is true. *)
C24_UploadRequiresSave ==
  lastOp.op = "importFromJSON" => requiresSave

(* C27: importFromJSON(data) replaces the terrain information of the scene:
   every queue holds exactly the shapes of data for its layer, in order; the
   scene map holds key 0 and exactly the non-zero keys of data; and
   terrainLayersAt reflects, at every point and on all six layers, only the
   imported shapes. *)
C27_ImportReplaces ==
  [][lastOp'.op = "importFromJSON" =>
       \E data \in UploadFiles :
         /\ \A l \in Layers : queueToJSON(shapeQueueArray'[l]) = data.shapeQueueArray[l]
         /\ DOMAIN sceneMap' = {0} \cup DOMAIN data.sceneMap
         /\ \A k \in DOMAIN sceneMap' \ {0} : terrainId(sceneMap'[k]) = data.sceneMap[k]
         /\ \A p \in Points : \A l \in Layers :
              terrainLayersAtPoint(p)'[l] = latestCover(data.shapeQueueArray[l], p)]_vars

(* C25: boundary resolver on a rectangle: with the four closed walls of a
   rectangle and a point strictly inside, encompassingPolygon returns the
   4-vertex outer polygon with no hole; with one of the four walls removed the
   same point yields NoEnclosingBoundary and fill finds nothing to paint. *)
C25_RectangleBoundary ==
  lastOp.op = "encompassingPolygon" =>
    /\ Rectangle \subseteq returned.walls =>
         /\ returned.value # NotFound
         /\ Len(returned.value.outer) = 4
         /\ polygonWalls(returned.value.outer) = Rectangle
         /\ returned.value.holes = {}
    /\ Cardinality(Rectangle \ returned.walls) = 1 =>
         /\ returned.value = NotFound
         /\ fillShapes(returned.walls, returned.origin) = <<>>

(* The resolver found the rectangle from an origin whose ray first meets the
   free-standing wall. *)
C25_Witness ==
  /\ lastOp.op = "encompassingPolygon"
  /\ returned.walls = Rectangle \cup {InnerWall}
  /\ returned.origin = <<3, 2>>
  /\ returned.value # NotFound

(* The resolver found no boundary in the rectangle that lacks its east wall. *)
C25_WitnessGap ==
  /\ lastOp.op = "encompassingPolygon"
  /\ returned.walls = Rectangle \ {{<<4, 0>>, <<4, 4>>}}
  /\ returned.value = NotFound

(* C26: clearData() removes all terrain data: afterwards the six shape queues
   are empty and terrainLayersAt is zero at every point on every layer,
   whatever had been painted before. *)
C26_ClearDataClearsAll ==
  [][lastOp'.op = "clearData" =>
       /\ shapeQueueArray' = EmptyQueues
       /\ \A p \in Points : \A l \in Layers : terrainLayersAtPoint(p)'[l] = 0]_vars

queuedIds(queues) == {g.id : g \in UNION {Range(queues[l]) : l \in Layers}}

(* The graphics of the temporary shapes of layer l, in the order they were set. *)
tempsOfLayer(temps, l) ==
  LET onLayer == SelectSeq(temps, LAMBDA t : t.graphics.layer = l)
  IN [i \in 1 .. Len(onLayer) |-> onLayer[i].graphics]

(* C28: temporary shapes are held outside the history: a shape added with
   temporary = true is in no shape queue and leaves the queues as they were, at
   most one temporary shape exists per origin key, the new one taking the place
   of the old one's graphics, and _makeTemporaryGraphicsPermanent appends every
   temporary shape once to the queue of its own layer and empties the
   temporary set. *)
C28_TemporaryOutsideHistory ==
  /\ [](/\ \A i \in DOMAIN temporaryGraphics :
             temporaryGraphics[i].graphics.id \notin queuedIds(shapeQueueArray)
        /\ \A i, j \in DOMAIN temporaryGraphics :
             temporaryGraphics[i].key = temporaryGraphics[j].key => i = j)
  /\ [][lastOp'.op = "addTemporary" =>
          /\ shapeQueueArray' = shapeQueueArray
          /\ \A i \in DOMAIN temporaryGraphics :
               tempHas(temporaryGraphics', temporaryGraphics[i].key)
          /\ \A l \in Layers : \A i \in DOMAIN graphicsLayers[l] :
               (graphicsLayers[l][i] \in tempGraphicsOf(temporaryGraphics)
                  /\ graphicsLayers[l][i] \notin tempGraphicsOf(temporaryGraphics'))
                 => graphicsLayers[l][i] \notin Range(graphicsLayers'[l])]_vars
  /\ [][lastOp'.op = "makeTemporaryGraphicsPermanent" =>
          /\ temporaryGraphics' = <<>>
          /\ \A l \in Layers :
               shapeQueueArray'[l] = shapeQueueArray[l] \o tempsOfLayer(temporaryGraphics, l)]_vars

(* The end of a drag that went over two cells, one on each of two layers: both
   cells are now in the queue of their own layer. *)
C28_Witness ==
  /\ lastOp.op = "makeTemporaryGraphicsPermanent"
  /\ temporaryGraphics = <<>>
  /\ Len(shapeQueueArray[0]) = 1 /\ shapeQueueArray[0][1].shape \in GridShapes
  /\ Len(shapeQueueArray[4]) = 1 /\ shapeQueueArray[4][1].shape \in GridShapes

entersWrite(s) == saves[s].pc # "write" /\ saves'[s].pc = "write"

(* C29: compaction does not race serialization: a save() compacts the queues
   and serializes them in one step taken while it holds the lock, so its
   snapshot is the queue state right after its compaction, stays what it is
   while the write is pending, and is what the file receives; the queues are
   compacted by no step other than a save() that holds the lock. *)
C29_CompactionUnderLock ==
  [][/\ \A s \in Savers :
          /\ entersWrite(s) =>
               /\ lockHeldBy(lock', s)
               /\ initialized' => saves'[s].snapshot = saveData(sceneMap', shapeQueueArray')
               /\ saves'[s].snapshot.shapeQueueArray =
                    [l \in Layers |->
                       queueToJSON(cleanAllShapeQueues(
                         [q |-> shapeQueueArray, c |-> graphicsLayers,
                          t |-> terrainTextures, d |-> pixelCacheDirty]).q[l])]
          /\ (saves[s].pc = "write" /\ saves'[s].pc = "write") =>
               saves'[s].snapshot = saves[s].snapshot
          /\ (saves[s].pc = "write" /\ saves'[s].pc = "done") =>
               storedData' = saves[s].snapshot
     /\ (/\ lastOp'.op \in {"deactivate", "tearDown", "saveSettled"}
         /\ initialized'
         /\ shapeQueueArray' # shapeQueueArray) =>
          \E s \in Savers : entersWrite(s) /\ lockHeldBy(lock', s)]_vars

(* A save is writing a snapshot from which the oldest shape has been
   compacted away, and an undo has since shortened the queue. *)
C29_Witness ==
  \E s \in Savers : \E l \in Layers :
    /\ saves[s].pc = "write"
    /\ lockHeldBy(lock, s)
    /\ Len(saves[s].snapshot.shapeQueueArray[l]) = NUM_UNDO
    /\ Len(shapeQueueArray[l]) = NUM_UNDO - 1
    /\ shapeQueueArray[l][1].id # 1

(* C30: a non-forced move whose segments include an ENTER segment leaves
   #onTokenPreMove with its destination at the end of the first ENTER segment and
   with the requested destination in lastDestination; a forced move leaves both
   the destination and lastDestination as they were. *)
C30_PreMoveInterception ==
  /\ [](( /\ lastOp.op = "onTokenPreMove"
          /\ ~eventData.forced
          /\ firstOfType(eventData.segments, "ENTER") # 0 )
        => /\ eventData.destination
                = eventData.segments[firstOfType(eventData.segments, "ENTER")].to
           /\ lastDestination = requestedDestination)
  /\ [][( /\ lastOp'.op = "onTokenPreMove"
          /\ eventData'.forced )
        => /\ eventData'.destination = requestedDestination'
           /\ lastDestination' = lastDestination]_vars

(* C31: when a move-in or move-out handler of the local user follows a pre-move
   that intercepted the move (changed its destination) and takes no elevation
   change, continueTokenAnimationForBehavior leaves the token at the destination
   the intercepted move had requested, whatever the segments of the move. *)
C31_ContinuesToRequested ==
  [][( /\ lastOp.op = "onTokenPreMove"
       /\ eventData.destination # requestedDestination
       /\ lastOp'.op \in {"onTokenMoveIn", "onTokenMoveOut"}
       /\ dispatched'.event.user = "local"
       /\ eventData'.token.elevation = dispatched'.event.data.token.elevation )
     => eventData'.token.x = requestedDestination.x]_vars

(* C32: on move-in the target is the behavior's elevation with the one-way
   algorithm and, with the stairs algorithm, elevation when the token is at or
   below the midpoint of floor and elevation, else floor. The token's elevation
   becomes the target when the target differs from it, the event's user is the
   local user, strict is off or the token is at elevation or at floor, and the
   dialog, when on, was confirmed; otherwise the elevation is unchanged. *)
C32_MoveInTarget ==
  lastOp.op = "onTokenMoveIn" =>
    LET this == dispatched.this
        before == dispatched.event.data.token.elevation
        target == IF this.algorithm = "ONE_WAY" THEN this.elevation
                  ELSE IF 2 * before <= this.floor + this.elevation
                       THEN this.elevation ELSE this.floor
        taken == /\ target # before
                 /\ dispatched.event.user = "local"
                 /\ (~this.strict \/ before \in {this.elevation, this.floor})
                 /\ (this.dialog => dispatched.confirm)
    IN eventData.token.elevation = IF taken THEN target ELSE before

(* A token exactly at the midpoint of floor 4 and elevation 10 took confirmed
   stairs up to the elevation. *)
C32_Witness ==
  /\ lastOp.op = "onTokenMoveIn"
  /\ dispatched.this.algorithm = "STAIRS"
  /\ dispatched.this.floor = 4
  /\ dispatched.this.dialog
  /\ dispatched.confirm
  /\ dispatched.event.user = "local"
  /\ dispatched.event.data.token.elevation = 7
  /\ eventData.token.elevation = 10

(* C33: on move-out from a behavior with resetOnExit, when strict and the dialog
   allow it, the token's elevation is reset to the behavior's floor; with
   resetOnExit off move-out never changes the token's elevation. *)
C33_ResetOnExit ==
  lastOp.op = "onTokenMoveOut" =>
    LET this == dispatched.this
        before == dispatched.event.data.token.elevation
        allowed == /\ dispatched.event.user = "local"
                   /\ (~this.strict \/ before \in {this.elevation, this.floor})
                   /\ (this.dialog => dispatched.confirm)
    IN /\ (this.resetOnExit /\ allowed) => eventData.token.elevation = this.floor
       /\ ~this.resetOnExit => eventData.token.elevation = before

(* C34: every operation that enqueues or dequeues a shape leaves _requiresSave
   true, and a pending _requiresSave goes back to false only when a save
   completes or the scene is loaded, cleared or torn down; in particular a
   temporary add never clears it. *)
C34_UnsavedNeverForgotten ==
  /\ [][( /\ shapeQueueArray' # shapeQueueArray
          /\ lastOp'.op \in {"add", "undo", "makeTemporaryGraphicsPermanent"} )
        => requiresSave']_vars
  /\ [][( requiresSave /\ ~requiresSave' )
        => lastOp'.op \in {"saveSettled", "initialize", "importFromJSON",
                           "clearData", "tearDown"}]_vars

(* C35: when the write of a save() resolves and nothing was modified since its
   snapshot, save() returns with _requiresSave false. *)
C35_CompletedSaveClears ==
  [][\A s \in Savers :
       ( /\ saves[s].pc = "write"
         /\ saves'[s].pc = "done"
         /\ saves[s].snapshot = saveData(sceneMap, shapeQueueArray)
         /\ initialized' )
       => ~requiresSave']_vars

(* C36: every save() that holds the lock releases it at last, also when its
   write fails, and every save() waiting for the lock acquires it and returns. *)
C36_LockAlwaysReleased ==
  \A s \in Savers :
    /\ lockHeldBy(lock, s) ~> ~lockHeldBy(lock, s)
    /\ (saves[s].pc = "acquire") ~> (saves[s].pc \in {"done", "failed"})

(* C37: of the initialize() calls of one scene load at most one runs the
   scene-loading body (buffer creation, loadSceneData, first render), and a call
   made while the layer is initialized changes nothing of the layer. *)
C37_InitializeOnce ==
  /\ [](Cardinality({c \in InitCalls : initializing[c] \in {"loadData", "done"}}) <= 1)
  /\ [][( lastOp'.op = "initializeCall" /\ initialized ) => UNCHANGED layerVars]_vars

====
